---------------------------- MODULE Spec2Model ----------------------------
(***************************************************************************)
(* KiForge: the layer registry (LayerManager, layer_operations/manager.rs) *)
(* and the per-frame handlers of the gerber view (ui/tabs.rs).             *)
(*                                                                         *)
(* The LayerManager is one record, lm, with the fields of the Rust struct. *)
(* Every method is an operator on such a record, computed as the method    *)
(* computes it, and one action applies it to lm.  std HashMap is a set of  *)
(* <<key, value>> entries, Option is a set of at most one element, Instant *)
(* is a number of seconds of the monotonic clock `now`.                    *)
(***************************************************************************)
EXTENDS Integers, Sequences, FiniteSets, TLC

VARIABLES
    lm,      \* the LayerManager
    now,     \* the monotonic clock read by Instant::now(), in seconds
    last,    \* the last operation performed: its name, arguments and result
    recomputes_since_invalidation,
             \* history: positioning recomputes since the last invalidation
    imported,
             \* history: the filenames imported so far
    app,     \* the DemoLensApp fields the gerber view reads and writes
    frame    \* what the last frame of the gerber view did before drawing

managerVars == <<lm, now, last, recomputes_since_invalidation, imported>>
viewVars == <<app, frame>>
vars == <<lm, now, last, recomputes_since_invalidation, imported, app, frame>>

---------------------------------------------------------------------------
(* Bounds of the model *)

MaxTime == 4
MaxUnassigned == 2
MaxCount == 2
MaxSaved == 1

(* Duration::from_secs(2), the staleness threshold *)
STALE_SECS == 2

LayerTypes == {"TopCopper", "MechanicalOutline"}
Filenames == {"a.gbr", "b.gbr"}
GerberCoords == "gerber"
DisplayCoords == {"posA", "posB"}
CoordValues == {"unset", GerberCoords} \cup DisplayCoords

(* LayerInfo: the geometry handle, the visibility flag, the cached coordinates *)
LayerInfo == [gerber : Filenames, visible : BOOLEAN, coords : CoordValues]
ImportedLayerInfo == {i \in LayerInfo : i.coords = "unset"}

None == {}
Some(x) == {x}

Min(a, b) == IF a < b THEN a ELSE b

Range(seq) == {seq[i] : i \in DOMAIN seq}

---------------------------------------------------------------------------
(* std::collections::HashMap as a set of <<key, value>> entries *)

Keys(h) == {e[1] : e \in h}
contains_key(h, k) == k \in Keys(h)
HashMapGet(h, k) == {e[2] : e \in {x \in h : x[1] = k}}
HashMapInsert(h, k, v) == {e \in h : e[1] # k} \cup {<<k, v>>}
HashMapRemove(h, k) == [map |-> {e \in h : e[1] # k}, ret |-> HashMapGet(h, k)]
HashMapLen(h) == Cardinality(h)

(* The orders in which a HashMap may iterate its entries *)
IterationOrders(h) ==
    {entries \in [1..Cardinality(h) -> h] : Range(entries) = h}

(* Vec::remove(index), index counted from 0: the later elements shift left *)
VecRemove(s, index) ==
    [i \in 1..(Len(s) - 1) |-> IF i <= index THEN s[i] ELSE s[i + 1]]

---------------------------------------------------------------------------
(* LayerManager *)

new(t) ==
    [layers |-> {},
     active_layer |-> "TopCopper",
     unassigned_gerbers |-> <<>>,
     layer_assignments |-> {},
     coordinates_last_updated |-> t,
     coordinates_dirty |-> FALSE]

(* Mutant: the record is added beside the one already stored for the role *)
add_layer_keep_old(m, layer_type, layer_info) ==
    [m EXCEPT !.layers = @ \cup {<<layer_type, layer_info>>}]

add_layer(m, layer_type, layer_info) ==
    [m EXCEPT !.layers = HashMapInsert(@, layer_type, layer_info)]

(* Mutant: the record is returned but stays in the registry *)
remove_layer_keep(m, layer_type) ==
    [self |-> m, ret |-> HashMapGet(m.layers, layer_type)]

remove_layer(m, layer_type) ==
    [self |-> [m EXCEPT !.layers = HashMapRemove(@, layer_type).map],
     ret |-> HashMapRemove(m.layers, layer_type).ret]

get_layer(m, layer_type) == HashMapGet(m.layers, layer_type)

set_active_layer(m, layer_type) == [m EXCEPT !.active_layer = layer_type]

clear_all(m) ==
    [m EXCEPT !.layers = {}, !.unassigned_gerbers = <<>>, !.layer_assignments = {}]

(* Mutant: the file takes the place of the list instead of joining it *)
add_unassigned_gerber_replace(m, gerber) ==
    [m EXCEPT !.unassigned_gerbers = <<gerber>>]

add_unassigned_gerber(m, gerber) ==
    [m EXCEPT !.unassigned_gerbers = Append(@, gerber)]

(* Mutant: an index past the end removes the last element *)
remove_unassigned_gerber_clamped(m, index) ==
    IF index < Len(m.unassigned_gerbers)
    THEN [self |-> [m EXCEPT !.unassigned_gerbers = VecRemove(@, index)],
          ret |-> Some(m.unassigned_gerbers[index + 1])]
    ELSE IF Len(m.unassigned_gerbers) > 0
    THEN [self |-> [m EXCEPT !.unassigned_gerbers =
                        VecRemove(@, Len(m.unassigned_gerbers) - 1)],
          ret |-> Some(m.unassigned_gerbers[Len(m.unassigned_gerbers)])]
    ELSE [self |-> m, ret |-> None]

(* Mutant: the element is returned but stays in the list *)
remove_unassigned_gerber_peek(m, index) ==
    IF index < Len(m.unassigned_gerbers)
    THEN [self |-> m, ret |-> Some(m.unassigned_gerbers[index + 1])]
    ELSE [self |-> m, ret |-> None]

remove_unassigned_gerber(m, index) ==
    IF index < Len(m.unassigned_gerbers)
    THEN [self |-> [m EXCEPT !.unassigned_gerbers = VecRemove(@, index)],
          ret |-> Some(m.unassigned_gerbers[index + 1])]
    ELSE [self |-> m, ret |-> None]

(* Mutant: the entry is added beside the one the filename already has *)
assign_layer_keep_old(m, filename, layer_type) ==
    [m EXCEPT !.layer_assignments = @ \cup {<<filename, layer_type>>}]

assign_layer(m, filename, layer_type) ==
    [m EXCEPT !.layer_assignments = HashMapInsert(@, filename, layer_type)]

remove_assignment(m, filename) ==
    [self |-> [m EXCEPT !.layer_assignments = HashMapRemove(@, filename).map],
     ret |-> HashMapRemove(m.layer_assignments, filename).ret]

get_assignment(m, filename) == HashMapGet(m.layer_assignments, filename)

layer_count(m) == HashMapLen(m.layers)

unassigned_count(m) == Len(m.unassigned_gerbers)

(* Mutant: no filter on the visible flag *)
get_visible_layers_unfiltered(m) == IterationOrders(m.layers)

(* The Vecs get_visible_layers can return: the visible entries, in an order *)
(* the HashMap iterates them.                                                *)
get_visible_layers(m) == IterationOrders({e \in m.layers : e[2].visible})

(* Mutant: every record is toggled *)
toggle_layer_visibility_every(m, layer_type) ==
    IF contains_key(m.layers, layer_type)
    THEN [m EXCEPT !.layers = {<<e[1], [e[2] EXCEPT !.visible = ~@]>> : e \in @}]
    ELSE m

toggle_layer_visibility(m, layer_type) ==
    [m EXCEPT !.layers =
        {IF e[1] = layer_type THEN <<e[1], [e[2] EXCEPT !.visible = ~@]>> ELSE e :
            e \in @}]

(* LayerManager::set_layer_visibility *)
LayerManager_set_layer_visibility(m, layer_type, visible) ==
    [m EXCEPT !.layers =
        {IF e[1] = layer_type THEN <<e[1], [e[2] EXCEPT !.visible = visible]>> ELSE e :
            e \in @}]

(* The LayerStatistics get_statistics can return *)
get_statistics(m) ==
    {[total_layers |-> layer_count(m),
      visible_layers |-> Len(v),
      unassigned_gerbers |-> unassigned_count(m),
      assignments |-> HashMapLen(m.layer_assignments)] : v \in get_visible_layers(m)}

mark_coordinates_dirty(m) == [m EXCEPT !.coordinates_dirty = TRUE]

(* Mutant: the flag is cleared but the update time is not stamped *)
mark_coordinates_updated_no_stamp(m, t) ==
    [m EXCEPT !.coordinates_dirty = FALSE]

mark_coordinates_updated(m, t) ==
    [m EXCEPT !.coordinates_dirty = FALSE, !.coordinates_last_updated = t]

(* Instant::elapsed() at clock t *)
elapsed(m, t) == t - m.coordinates_last_updated

(* Mutant: stale from 2 seconds on, not after 2 seconds *)
coordinates_need_update_ge(m, t) ==
    m.coordinates_dirty \/ elapsed(m, t) >= STALE_SECS

(* Mutant: the comparison with the threshold reversed *)
coordinates_need_update_reversed(m, t) ==
    m.coordinates_dirty \/ elapsed(m, t) < STALE_SECS

coordinates_need_update(m, t) ==
    m.coordinates_dirty \/ elapsed(m, t) > STALE_SECS

(* LayerInfo::initialize_coordinates_from_gerber *)
initialize_coordinates_from_gerber(layer_info) ==
    [layer_info EXCEPT !.coords = GerberCoords]

(* Mutant: nothing is done unless the flag is set *)
initialize_all_coordinates_if_dirty(m, t) ==
    IF m.coordinates_dirty
    THEN mark_coordinates_updated(
             [m EXCEPT !.layers =
                 {<<e[1], initialize_coordinates_from_gerber(e[2])>> : e \in @}],
             t)
    ELSE m

initialize_all_coordinates(m, t) ==
    mark_coordinates_updated(
        [m EXCEPT !.layers =
            {<<e[1], initialize_coordinates_from_gerber(e[2])>> : e \in @}],
        t)

(* DisplayManager::update_layer_positions(&mut LayerManager): the positioning *)
(* collaborator.  It gives every record display coordinates of its choice     *)
(* and, holding the manager mutably, may leave the freshness fields in any    *)
(* state.  The set of managers it can leave behind.                           *)
update_layer_positions(m, t) ==
    {[m EXCEPT !.layers = {<<k, [CHOOSE i \in HashMapGet(m.layers, k) : TRUE
                                   EXCEPT !.coords = pos[k]]>> : k \in Keys(m.layers)},
               !.coordinates_dirty = d,
               !.coordinates_last_updated = s] :
        pos \in [Keys(m.layers) -> DisplayCoords],
        d \in BOOLEAN,
        s \in {m.coordinates_last_updated, t}}

(* Mutant: the update is marked before the collaborator runs *)
update_coordinates_from_display_mark_first(m, t) ==
    IF ~coordinates_need_update(m, t)
    THEN {[self |-> m, invoked |-> 0]}
    ELSE {[self |-> m2, invoked |-> 1] :
             m2 \in update_layer_positions(mark_coordinates_updated(m, t), t)}

(* Mutant: no early return *)
update_coordinates_from_display_unguarded(m, t) ==
    {[self |-> mark_coordinates_updated(m2, t), invoked |-> 1] :
        m2 \in update_layer_positions(m, t)}

(* The managers update_coordinates_from_display can leave behind, each with *)
(* the number of times the collaborator was invoked.                        *)
update_coordinates_from_display(m, t) ==
    IF ~coordinates_need_update(m, t)
    THEN {[self |-> m, invoked |-> 0]}
    ELSE {[self |-> mark_coordinates_updated(m2, t), invoked |-> 1] :
             m2 \in update_layer_positions(m, t)}

---------------------------------------------------------------------------
(* Persistence: impl Serialize / impl Deserialize for LayerManager.  The   *)
(* persisted form is the sequence of <<field name, value>> pairs the       *)
(* serializer is given; a map is the sequence of its <<key, value>>        *)
(* entries, in the order the HashMap iterates them.                        *)

(* HashMap from the entries of a persisted map: a later entry of a key *)
(* takes the place of an earlier one.                                  *)
RECURSIVE HashMapFromEntries(_)
HashMapFromEntries(entries) ==
    IF entries = <<>>
    THEN {}
    ELSE HashMapInsert(HashMapFromEntries(SubSeq(entries, 1, Len(entries) - 1)),
                       entries[Len(entries)][1], entries[Len(entries)][2])

(* The persisted forms serialize can give: two fields, in this order *)
serialize(m) ==
    {<< <<"active_layer", m.active_layer>>, <<"layer_assignments", entries>> >> :
        entries \in IterationOrders(m.layer_assignments)}

(* The values the persisted form has for a field *)
FieldIndexes(data, name) == {i \in DOMAIN data : data[i][1] = name}

Ok(value) == [ok |-> TRUE, value |-> value]
Err(error) == [ok |-> FALSE, value |-> error]

(* Mutant: the loaded manager is not marked dirty *)
deserialize_clean(data, t) ==
    IF FieldIndexes(data, "active_layer") = {}
    THEN Err("missing field active_layer")
    ELSE IF FieldIndexes(data, "layer_assignments") = {}
    THEN Err("missing field layer_assignments")
    ELSE IF Cardinality(FieldIndexes(data, "active_layer")) > 1
    THEN Err("duplicate field active_layer")
    ELSE IF Cardinality(FieldIndexes(data, "layer_assignments")) > 1
    THEN Err("duplicate field layer_assignments")
    ELSE Ok([layers |-> {},
             active_layer |->
                 data[CHOOSE i \in FieldIndexes(data, "active_layer") : TRUE][2],
             unassigned_gerbers |-> <<>>,
             layer_assignments |->
                 HashMapFromEntries(
                     data[CHOOSE i \in FieldIndexes(data, "layer_assignments") : TRUE][2]),
             coordinates_last_updated |-> t,
             coordinates_dirty |-> FALSE])

(* LayerManagerData::deserialize (derived: both fields are required, other *)
(* fields are ignored), then the LayerManager built from it at clock t.    *)
deserialize(data, t) ==
    IF FieldIndexes(data, "active_layer") = {}
    THEN Err("missing field active_layer")
    ELSE IF FieldIndexes(data, "layer_assignments") = {}
    THEN Err("missing field layer_assignments")
    ELSE IF Cardinality(FieldIndexes(data, "active_layer")) > 1
    THEN Err("duplicate field active_layer")
    ELSE IF Cardinality(FieldIndexes(data, "layer_assignments")) > 1
    THEN Err("duplicate field layer_assignments")
    ELSE Ok([layers |-> {},
             active_layer |->
                 data[CHOOSE i \in FieldIndexes(data, "active_layer") : TRUE][2],
             unassigned_gerbers |-> <<>>,
             layer_assignments |->
                 HashMapFromEntries(
                     data[CHOOSE i \in FieldIndexes(data, "layer_assignments") : TRUE][2]),
             coordinates_last_updated |-> t,
             coordinates_dirty |-> TRUE])

(* Persisted states that were not written by serialize: a field or both *)
(* missing, a field the struct does not have.                           *)
PartialStates ==
    {<<>>,
     << <<"active_layer", "MechanicalOutline">> >>,
     << <<"layer_assignments", << <<"a.gbr", "MechanicalOutline">> >> >> >>,
     << <<"layer_assignments", <<>> >>, <<"active_layer", "MechanicalOutline">> >>,
     << <<"active_layer", "TopCopper">>, <<"layers", <<>> >>,
        <<"layer_assignments", <<>> >> >>}

---------------------------------------------------------------------------
(* Import: the detector and the routing of imported files *)

(* The files of an import, with the role the filename conventions give    *)
(* each: copper and silkscreen per side, the mechanical outline; two of   *)
(* the files match no convention, two are the top copper.                 *)
ImportFiles ==
    {"F_Cu.gbr", "B_Cu.gbr", "F_SilkS.gbr", "Edge_Cuts.gbr",
     "panel-F_Cu.gbr", "notes.txt", "drill.drl"}

(* LayerDetector::detect_layer_type *)
LayerDetector_detect_layer_type(filename) ==
    CASE filename \in {"F_Cu.gbr", "panel-F_Cu.gbr"} -> Some("TopCopper")
      [] filename = "B_Cu.gbr" -> Some("BottomCopper")
      [] filename = "F_SilkS.gbr" -> Some("TopSilk")
      [] filename = "Edge_Cuts.gbr" -> Some("MechanicalOutline")
      [] OTHER -> None

ImportRoles == UNION {LayerDetector_detect_layer_type(f) : f \in ImportFiles}

detect_layer_type(m, filename) == LayerDetector_detect_layer_type(filename)

(* The LayerInfo made of an imported file: visible, coordinates not yet set *)
LayerInfo_new(filename) ==
    [gerber |-> filename, visible |-> TRUE, coords |-> "unset"]

(* The import of one file: a classified file becomes the record of its  *)
(* role, an unclassified one goes to the unassigned list.               *)
import_file(m, filename) ==
    IF detect_layer_type(m, filename) = None
    THEN add_unassigned_gerber(m, filename)
    ELSE add_layer(m, CHOOSE r \in detect_layer_type(m, filename) : TRUE,
                   LayerInfo_new(filename))

(* The manual assignment of the unassigned file at index to a role: the  *)
(* file leaves the unassigned list, becomes the record of the role, and  *)
(* the assignment table records the choice.                              *)
manual_assign(m, index, layer_type) ==
    LET removed == remove_unassigned_gerber(m, index)
    IN  IF removed.ret = None
        THEN [self |-> m, ret |-> None]
        ELSE LET gerber == CHOOSE g \in removed.ret : TRUE
             IN  [self |-> assign_layer(
                               add_layer(removed.self, layer_type, LayerInfo_new(gerber)),
                               gerber, layer_type),
                  ret |-> removed.ret]

---------------------------------------------------------------------------
(* The gerber view (ui/tabs.rs).  Lengths are integers, in nanometers;     *)
(* screen positions are integers, in pixels.                               *)

MaxZoom == 1

NM_PER_MM == 1000000
NM_PER_MIL == 25400

Point(x, y) == [x |-> x, y |-> y]

(* Pointer positions of the model: where the pointer is on the screen and *)
(* the gerber coordinates ViewState::screen_to_gerber_coords gives there. *)
(* The controls are above the viewport.                                    *)
OverControls == [screen |-> Point(5, -20), gerber |-> Point(-1270000, 2540000)]
OverViewport ==
    {[screen |-> Point(0, 0), gerber |-> Point(0, 0)],
     [screen |-> Point(30, 30), gerber |-> Point(3000000, 4000000)]}
Pointers == {OverControls} \cup OverViewport

(* crate::ecs::LayerType::all() *)
EcsLayerTypes ==
    {<<"Copper", "1">>, <<"Copper", "2">>,
     <<"Silkscreen", "Top">>, <<"Silkscreen", "Bottom">>,
     <<"Soldermask", "Top">>, <<"Soldermask", "Bottom">>,
     <<"Paste", "Top">>, <<"Paste", "Bottom">>,
     <<"MechanicalOutline", "-">>}

(* The grid spacings offered, in mils and in millimeters (as nanometers) *)
grid_spacings_mils == <<100, 50, 25, 10, 5, 2, 1>>
grid_spacings_mm == <<2540000, 1270000, 635000, 254000, 127000, 50800, 25400>>

(* The values a drag of the quadrant spacing can give, in the unit shown *)
SpacingValues == {10}

Widgets ==
    {"quadrant_view", "spacing", "flip", "rotate", "x_mirror", "y_mirror",
     "origin_button", "ruler", "grid_spacing", "dot_size", "snap", "viewport"}

(* What egui reports in one frame: the widget the click landed on, the   *)
(* value a dragged or selected widget got, the pointer, the right button, *)
(* Escape, the wheel.                                                     *)
NoInput ==
    [clicked |-> "none", double_clicked |-> FALSE, value |-> 0,
     hover |-> None, contains_pointer |-> FALSE,
     right_pressed |-> FALSE, right_released |-> FALSE,
     escape |-> FALSE, scroll |-> 0]

(* DemoLensApp as constructed *)
AppInit ==
    [display_manager |->
        [quadrant_view_enabled |-> FALSE,
         quadrant_offset_magnitude |-> 0,
         showing_top |-> TRUE,
         mirroring |-> [x |-> FALSE, y |-> FALSE],
         design_offset |-> Point(0, 0),
         center_offset |-> Point(0, 0)],
     rotation_degrees |-> 0,
     global_units_mils |-> FALSE,
     needs_initial_view |-> TRUE,
     setting_origin_mode |-> FALSE,
     origin_has_been_set |-> FALSE,
     ecs_world |->
        [coordinates_dirty |-> FALSE,
         visibility |-> [t \in EcsLayerTypes |-> TRUE],
         units_mils |-> FALSE],
     zoom_window_start |-> None,
     zoom_window_dragging |-> FALSE,
     view_state |-> [scale |-> 0, translation |-> Point(0, 0)],
     ui_state |-> [cursor_gerber_coords |-> None],
     grid_settings |-> [spacing_mm |-> 2540000, dot_size |-> 1, snap_enabled |-> FALSE],
     ruler_active |-> FALSE,
     ruler_start |-> None,
     ruler_end |-> None,
     ruler_dragging |-> FALSE,
     drc_manager |-> [violations |-> <<>>, corner_overlay_shapes |-> <<>>]]

(* DemoLensApp::sync_units_to_ecs: the UnitsResource of the ECS world gets *)
(* the unit of global_units_mils                                           *)
sync_units_to_ecs(a) == [a EXCEPT !.ecs_world.units_mils = a.global_units_mils]

(* Mutant: the stored lengths are rescaled to the unit chosen *)
show_settings_panel_rescaling(a, in) ==
    IF in.clicked \in {"units_mm", "units_mils"}
    THEN sync_units_to_ecs(
             [a EXCEPT !.global_units_mils = (in.clicked = "units_mils"),
                       !.grid_settings.spacing_mm =
                           IF in.clicked = "units_mils" /\ ~a.global_units_mils
                           THEN @ \div NM_PER_MIL ELSE @])
    ELSE a

(* show_settings_panel, Units section: a click on one of the two units *)
show_settings_panel(a, in) ==
    IF in.clicked \in {"units_mm", "units_mils"}
    THEN sync_units_to_ecs([a EXCEPT !.global_units_mils = (in.clicked = "units_mils")])
    ELSE a

(* crate::ecs::mark_coordinates_dirty_ecs *)
mark_coordinates_dirty_ecs(a) == [a EXCEPT !.ecs_world.coordinates_dirty = TRUE]

(* crate::ecs::get_layer_visibility / set_layer_visibility *)
get_layer_visibility(a, layer_type) == a.ecs_world.visibility[layer_type]
set_layer_visibility(a, layer_type, visible) ==
    [a EXCEPT !.ecs_world.visibility[layer_type] = visible]

(* DisplayManager::set_quadrant_offset_magnitude *)
set_quadrant_offset_magnitude(a, spacing_mm) ==
    [a EXCEPT !.display_manager.quadrant_offset_magnitude = spacing_mm]

(* f64::round of n / d for d > 0: to the nearest, halves away from zero *)
RoundDiv(n, d) ==
    IF n >= 0 THEN (2 * n + d) \div (2 * d) ELSE -((2 * (-n) + d) \div (2 * d))

(* crate::display::snap_to_grid: the point itself if snapping is disabled, *)
(* else each axis rounded to the nearest multiple of the spacing           *)
snap_to_grid(point, grid_settings) ==
    IF ~grid_settings.snap_enabled
    THEN point
    ELSE Point(RoundDiv(point.x, grid_settings.spacing_mm) * grid_settings.spacing_mm,
               RoundDiv(point.y, grid_settings.spacing_mm) * grid_settings.spacing_mm)

render_quadrant_controls(a, in) ==
    LET a1 == IF in.clicked = "quadrant_view"
              THEN mark_coordinates_dirty_ecs(
                       [a EXCEPT !.display_manager.quadrant_view_enabled = ~@,
                                 !.needs_initial_view = TRUE])
              ELSE a
    IN  IF a1.display_manager.quadrant_view_enabled /\ in.clicked = "spacing"
        THEN mark_coordinates_dirty_ecs(set_quadrant_offset_magnitude(a1,
                 in.value * (IF a1.ecs_world.units_mils THEN NM_PER_MIL ELSE NM_PER_MM)))
        ELSE a1

(* The visibility the Flip button gives a layer *)
FlipVisible(a, layer_type) ==
    IF layer_type \in {<<"Copper", "1">>, <<"Silkscreen", "Top">>,
                       <<"Soldermask", "Top">>, <<"Paste", "Top">>}
    THEN a.display_manager.showing_top
    ELSE IF layer_type[1] \in {"Copper", "Silkscreen", "Soldermask", "Paste"}
    THEN ~a.display_manager.showing_top
    ELSE get_layer_visibility(a, layer_type)

(* Mutant: the visibility is set from the side shown before the flip *)
render_layer_controls_old_side(a, in) ==
    IF in.clicked = "flip"
    THEN LET a1 == [a EXCEPT !.display_manager.showing_top = ~@]
         IN  mark_coordinates_dirty_ecs(
                 [a1 EXCEPT !.ecs_world.visibility =
                     [t \in EcsLayerTypes |-> FlipVisible(a, t)]])
    ELSE a

render_layer_controls(a, in) ==
    IF in.clicked = "flip"
    THEN LET a1 == [a EXCEPT !.display_manager.showing_top = ~@]
         IN  mark_coordinates_dirty_ecs(
                 [a1 EXCEPT !.ecs_world.visibility =
                     [t \in EcsLayerTypes |-> FlipVisible(a1, t)]])
    ELSE a

CustomOriginSet(a) ==
    a.display_manager.design_offset.x # 0 \/ a.display_manager.design_offset.y # 0

(* Mutant: the angle is not reduced mod 360 *)
render_transform_controls_no_wrap(a, in) ==
    LET a1 == IF in.clicked = "rotate"
              THEN mark_coordinates_dirty_ecs(
                       [a EXCEPT !.rotation_degrees = @ + 90])
              ELSE a
        a2 == IF in.clicked = "x_mirror"
              THEN mark_coordinates_dirty_ecs(
                       [a1 EXCEPT !.display_manager.mirroring.x = ~@])
              ELSE a1
        a3 == IF in.clicked = "y_mirror"
              THEN mark_coordinates_dirty_ecs(
                       [a2 EXCEPT !.display_manager.mirroring.y = ~@])
              ELSE a2
    IN  IF in.clicked # "origin_button"
        THEN a3
        ELSE IF CustomOriginSet(a3)
        THEN mark_coordinates_dirty_ecs(
                 [a3 EXCEPT !.display_manager.design_offset = Point(0, 0),
                            !.origin_has_been_set = FALSE,
                            !.needs_initial_view = TRUE])
        ELSE [a3 EXCEPT !.setting_origin_mode = TRUE]

(* Mutant: X Mirror resets the custom origin and the view *)
render_transform_controls_mirror_resets(a, in) ==
    LET a1 == IF in.clicked = "rotate"
              THEN mark_coordinates_dirty_ecs(
                       [a EXCEPT !.rotation_degrees = (@ + 90) % 360])
              ELSE a
        a2 == IF in.clicked = "x_mirror"
              THEN mark_coordinates_dirty_ecs(
                       [a1 EXCEPT !.display_manager.mirroring.x = ~@,
                                  !.display_manager.design_offset = Point(0, 0),
                                  !.origin_has_been_set = FALSE,
                                  !.needs_initial_view = TRUE])
              ELSE a1
        a3 == IF in.clicked = "y_mirror"
              THEN mark_coordinates_dirty_ecs(
                       [a2 EXCEPT !.display_manager.mirroring.y = ~@])
              ELSE a2
    IN  IF in.clicked # "origin_button"
        THEN a3
        ELSE IF CustomOriginSet(a3)
        THEN mark_coordinates_dirty_ecs(
                 [a3 EXCEPT !.display_manager.design_offset = Point(0, 0),
                            !.origin_has_been_set = FALSE,
                            !.needs_initial_view = TRUE])
        ELSE [a3 EXCEPT !.setting_origin_mode = TRUE]

render_transform_controls(a, in) ==
    LET a1 == IF in.clicked = "rotate"
              THEN mark_coordinates_dirty_ecs(
                       [a EXCEPT !.rotation_degrees = (@ + 90) % 360])
              ELSE a
        a2 == IF in.clicked = "x_mirror"
              THEN mark_coordinates_dirty_ecs(
                       [a1 EXCEPT !.display_manager.mirroring.x = ~@])
              ELSE a1
        a3 == IF in.clicked = "y_mirror"
              THEN mark_coordinates_dirty_ecs(
                       [a2 EXCEPT !.display_manager.mirroring.y = ~@])
              ELSE a2
    IN  IF in.clicked # "origin_button"
        THEN a3
        ELSE IF CustomOriginSet(a3)
        THEN mark_coordinates_dirty_ecs(
                 [a3 EXCEPT !.display_manager.design_offset = Point(0, 0),
                            !.origin_has_been_set = FALSE,
                            !.needs_initial_view = TRUE])
        ELSE [a3 EXCEPT !.setting_origin_mode = TRUE]

render_ruler_controls(a, in) ==
    IF in.clicked = "ruler"
    THEN IF a.ruler_active
         THEN [a EXCEPT !.ruler_active = FALSE, !.ruler_start = None, !.ruler_end = None]
         ELSE [a EXCEPT !.ruler_active = TRUE]
    ELSE a

render_grid_controls(a, in) ==
    IF in.clicked = "grid_spacing"
    THEN [a EXCEPT !.grid_settings.spacing_mm =
             IF a.ecs_world.units_mils
             THEN grid_spacings_mils[in.value] * NM_PER_MIL
             ELSE grid_spacings_mm[in.value]]
    ELSE IF in.clicked = "dot_size"
    THEN [a EXCEPT !.grid_settings.dot_size = in.value]
    ELSE IF in.clicked = "snap"
    THEN [a EXCEPT !.grid_settings.snap_enabled = ~@]
    ELSE a

render_controls(a, in) ==
    render_grid_controls(
        render_ruler_controls(
            render_transform_controls(
                render_layer_controls(
                    render_quadrant_controls(a, in), in), in), in), in)

setup_viewport(a, in) ==
    IF in.double_clicked THEN [a EXCEPT !.needs_initial_view = TRUE] ELSE a

Abs(n) == IF n < 0 THEN -n ELSE n

(* Rect::from_two_pos(start, end): larger than 10 px both ways *)
ZoomRectLargeEnough(start, end) ==
    Abs(end.x - start.x) > 10 /\ Abs(end.y - start.y) > 10

(* The view a completed zoom window gives: a new scale, the translation *)
(* that centers the rectangle.                                          *)
ZoomToWindow(view_state, start, end) ==
    [scale |-> Min(view_state.scale + 1, MaxZoom),
     translation |-> Point((start.x + end.x) \div 2, (start.y + end.y) \div 2)]

(* Mutant: Escape ends the drag and keeps the start of the rectangle *)
handle_zoom_window_escape_keeps_start(a, in) ==
    LET a1 == IF in.contains_pointer /\ in.right_pressed /\ in.hover # None
              THEN [a EXCEPT !.zoom_window_start = {h.screen : h \in in.hover},
                             !.zoom_window_dragging = TRUE]
              ELSE a
        a2 == IF a1.zoom_window_dragging /\ in.right_released
              THEN [a1 EXCEPT
                       !.view_state =
                           IF \E s \in a1.zoom_window_start, h \in in.hover :
                                  ZoomRectLargeEnough(s, h.screen)
                           THEN CHOOSE v \in
                                    {ZoomToWindow(@, s, h.screen) :
                                        s \in a1.zoom_window_start, h \in in.hover} : TRUE
                           ELSE @,
                       !.zoom_window_dragging = FALSE,
                       !.zoom_window_start = None]
              ELSE a1
    IN  IF a2.zoom_window_dragging /\ in.escape
        THEN [a2 EXCEPT !.zoom_window_dragging = FALSE]
        ELSE a2

handle_zoom_window(a, in) ==
    LET a1 == IF in.contains_pointer /\ in.right_pressed /\ in.hover # None
              THEN [a EXCEPT !.zoom_window_start = {h.screen : h \in in.hover},
                             !.zoom_window_dragging = TRUE]
              ELSE a
        a2 == IF a1.zoom_window_dragging /\ in.right_released
              THEN [a1 EXCEPT
                       !.view_state =
                           IF \E s \in a1.zoom_window_start, h \in in.hover :
                                  ZoomRectLargeEnough(s, h.screen)
                           THEN CHOOSE v \in
                                    {ZoomToWindow(@, s, h.screen) :
                                        s \in a1.zoom_window_start, h \in in.hover} : TRUE
                           ELSE @,
                       !.zoom_window_dragging = FALSE,
                       !.zoom_window_start = None]
              ELSE a1
    IN  IF a2.zoom_window_dragging /\ in.escape
        THEN [a2 EXCEPT !.zoom_window_dragging = FALSE, !.zoom_window_start = None]
        ELSE a2

(* The wheel: one zoom step in or out, clamped, about the pointer *)
handle_mouse_wheel_zoom(a, in) ==
    IF ~in.contains_pointer \/ in.scroll = 0 \/ in.hover = None
    THEN a
    ELSE [a EXCEPT !.view_state =
             [scale |-> IF in.scroll > 0
                        THEN Min(@.scale + 1, MaxZoom)
                        ELSE -Min(1 - @.scale, MaxZoom),
              translation |-> CHOOSE p \in {h.screen : h \in in.hover} : TRUE]]

(* Mutant: the snapped x with the y of the pointer *)
FinalCoords_x_only(a, gerber_coords) ==
    IF a.grid_settings.snap_enabled
    THEN Point(snap_to_grid(gerber_coords, a.grid_settings).x, gerber_coords.y)
    ELSE gerber_coords

(* The point a click gives: snapped to the grid if snapping is enabled *)
FinalCoords(a, gerber_coords) ==
    IF a.grid_settings.snap_enabled
    THEN snap_to_grid(gerber_coords, a.grid_settings)
    ELSE gerber_coords

handle_ruler_interaction(a, in) ==
    IF ~a.ruler_active
    THEN a
    ELSE LET mouse_pos == {h.gerber : h \in in.hover}
             a1 == IF in.clicked = "viewport" /\ mouse_pos # None
                   THEN LET final_coords == {FinalCoords(a, g) : g \in mouse_pos}
                        IN  IF a.ruler_start = None
                            THEN [a EXCEPT !.ruler_start = final_coords,
                                           !.ruler_end = None,
                                           !.ruler_dragging = TRUE]
                            ELSE IF a.ruler_end = None
                            THEN [a EXCEPT !.ruler_end = final_coords,
                                           !.ruler_dragging = FALSE]
                            ELSE [a EXCEPT !.ruler_start = final_coords,
                                           !.ruler_end = None,
                                           !.ruler_dragging = TRUE]
                   ELSE a
         IN  IF a1.ruler_dragging /\ a1.ruler_start # None /\ mouse_pos # None
             THEN [a1 EXCEPT !.ruler_end = {FinalCoords(a1, g) : g \in mouse_pos}]
             ELSE a1

(* Mutant: the click sets the origin without marking dirty *)
handle_viewport_interactions_unmarked(a, in) ==
    LET a1 == handle_mouse_wheel_zoom(handle_zoom_window(a, in), in)
    IN  IF a1.zoom_window_dragging
        THEN a1
        ELSE LET a2 == IF in.hover # None
                       THEN [a1 EXCEPT !.ui_state.cursor_gerber_coords =
                                {h.gerber : h \in in.hover}]
                       ELSE a1
                 a3 == IF a2.ruler_active /\ ~a2.setting_origin_mode
                       THEN handle_ruler_interaction(a2, in)
                       ELSE a2
             IN  IF /\ a3.setting_origin_mode
                    /\ in.clicked = "viewport"
                    /\ a3.ui_state.cursor_gerber_coords # None
                 THEN [a3 EXCEPT
                          !.display_manager.design_offset =
                              CHOOSE p \in {FinalCoords(a3, g) :
                                  g \in a3.ui_state.cursor_gerber_coords} : TRUE,
                          !.setting_origin_mode = FALSE,
                          !.origin_has_been_set = TRUE,
                          !.needs_initial_view = TRUE]
                 ELSE a3

(* Mutant: the ruler handles the click in origin-setting mode too *)
handle_viewport_interactions_ruler_first(a, in) ==
    LET a1 == handle_mouse_wheel_zoom(handle_zoom_window(a, in), in)
    IN  IF a1.zoom_window_dragging
        THEN a1
        ELSE LET a2 == IF in.hover # None
                       THEN [a1 EXCEPT !.ui_state.cursor_gerber_coords =
                                {h.gerber : h \in in.hover}]
                       ELSE a1
                 a3 == IF a2.ruler_active
                       THEN handle_ruler_interaction(a2, in)
                       ELSE a2
             IN  IF /\ a3.setting_origin_mode
                    /\ in.clicked = "viewport"
                    /\ a3.ui_state.cursor_gerber_coords # None
                 THEN mark_coordinates_dirty_ecs(
                          [a3 EXCEPT
                              !.display_manager.design_offset =
                                  CHOOSE p \in {FinalCoords(a3, g) :
                                      g \in a3.ui_state.cursor_gerber_coords} : TRUE,
                              !.setting_origin_mode = FALSE,
                              !.origin_has_been_set = TRUE,
                              !.needs_initial_view = TRUE])
                 ELSE a3

handle_viewport_interactions(a, in) ==
    LET a1 == handle_mouse_wheel_zoom(handle_zoom_window(a, in), in)
    IN  IF a1.zoom_window_dragging
        THEN a1
        ELSE LET a2 == IF in.hover # None
                       THEN [a1 EXCEPT !.ui_state.cursor_gerber_coords =
                                {h.gerber : h \in in.hover}]
                       ELSE a1
                 a3 == IF a2.ruler_active /\ ~a2.setting_origin_mode
                       THEN handle_ruler_interaction(a2, in)
                       ELSE a2
             IN  IF /\ a3.setting_origin_mode
                    /\ in.clicked = "viewport"
                    /\ a3.ui_state.cursor_gerber_coords # None
                 THEN mark_coordinates_dirty_ecs(
                          [a3 EXCEPT
                              !.display_manager.design_offset =
                                  CHOOSE p \in {FinalCoords(a3, g) :
                                      g \in a3.ui_state.cursor_gerber_coords} : TRUE,
                              !.setting_origin_mode = FALSE,
                              !.origin_has_been_set = TRUE,
                              !.needs_initial_view = TRUE])
                 ELSE a3

(* DemoLensApp::reset_view: the initial view again *)
reset_view(a) ==
    [a EXCEPT !.view_state = [scale |-> 0, translation |-> Point(0, 0)],
              !.needs_initial_view = FALSE]

(* DemoLensApp::render_layers_ecs: the layers are drawn from the cached   *)
(* coordinates, recomputed first if they are marked dirty.                *)
render_layers_ecs(a) == [a EXCEPT !.ecs_world.coordinates_dirty = FALSE]

(* f32::cos and f32::sin of an angle in degrees, for the quarter turns *)
Cos(degrees) ==
    CASE degrees % 360 = 0 -> 1
      [] degrees % 360 = 90 -> 0
      [] degrees % 360 = 180 -> -1
      [] degrees % 360 = 270 -> 0

Sin(degrees) ==
    CASE degrees % 360 = 0 -> 0
      [] degrees % 360 = 90 -> 1
      [] degrees % 360 = 180 -> 0
      [] degrees % 360 = 270 -> -1

(* Position::invert_x, Position::invert_y *)
invert_x(p) == Point(-p.x, p.y)
invert_y(p) == Point(p.x, -p.y)

PointAdd(p, q) == Point(p.x + q.x, p.y + q.y)
PointSub(p, q) == Point(p.x - q.x, p.y - q.y)

(* Mutant: the design offset is left out of the translation *)
overlay_vertex_pos_no_origin(a, point) ==
    LET rotated == IF a.rotation_degrees # 0
                   THEN Point(point.x * Cos(a.rotation_degrees)
                                  - point.y * Sin(a.rotation_degrees),
                              point.x * Sin(a.rotation_degrees)
                                  + point.y * Cos(a.rotation_degrees))
                   ELSE point
        mirrored_x == IF a.display_manager.mirroring.x THEN invert_x(rotated) ELSE rotated
        mirrored == IF a.display_manager.mirroring.y THEN invert_y(mirrored_x) ELSE mirrored_x
    IN  PointAdd(mirrored, a.display_manager.center_offset)

(* render_corner_overlays: the position of a vertex of a shape, before *)
(* the view maps it to the screen.                                     *)
overlay_vertex_pos(a, point) ==
    LET rotated == IF a.rotation_degrees # 0
                   THEN Point(point.x * Cos(a.rotation_degrees)
                                  - point.y * Sin(a.rotation_degrees),
                              point.x * Sin(a.rotation_degrees)
                                  + point.y * Cos(a.rotation_degrees))
                   ELSE point
        mirrored_x == IF a.display_manager.mirroring.x THEN invert_x(rotated) ELSE rotated
        mirrored == IF a.display_manager.mirroring.y THEN invert_y(mirrored_x) ELSE mirrored_x
        origin == PointSub(a.display_manager.center_offset, a.display_manager.design_offset)
    IN  PointAdd(mirrored, origin)

(* The vertices drawn for every shape, and the application left behind *)
render_corner_overlays(a) ==
    [app |-> a,
     drawn |-> [i \in DOMAIN a.drc_manager.corner_overlay_shapes |->
                   [j \in DOMAIN a.drc_manager.corner_overlay_shapes[i] |->
                       overlay_vertex_pos(a, a.drc_manager.corner_overlay_shapes[i][j])]]]

(* Mutant: the mirroring is applied before the rotation *)
violation_pos_mirror_first(a, violation) ==
    LET mirrored_x == IF a.display_manager.mirroring.x THEN invert_x(violation) ELSE violation
        mirrored == IF a.display_manager.mirroring.y THEN invert_y(mirrored_x) ELSE mirrored_x
        rotated == IF a.rotation_degrees # 0
                   THEN Point(mirrored.x * Cos(a.rotation_degrees)
                                  - mirrored.y * Sin(a.rotation_degrees),
                              mirrored.x * Sin(a.rotation_degrees)
                                  + mirrored.y * Cos(a.rotation_degrees))
                   ELSE mirrored
        origin == PointSub(a.display_manager.center_offset, a.display_manager.design_offset)
    IN  PointAdd(rotated, origin)

(* render_drc_violations: the position of the marker of a violation, *)
(* before the view maps it to the screen.                            *)
violation_pos(a, violation) ==
    LET violation_pos_raw == Point(violation.x, violation.y)
        rotated == IF a.rotation_degrees # 0
                   THEN Point(violation_pos_raw.x * Cos(a.rotation_degrees)
                                  - violation_pos_raw.y * Sin(a.rotation_degrees),
                              violation_pos_raw.x * Sin(a.rotation_degrees)
                                  + violation_pos_raw.y * Cos(a.rotation_degrees))
                   ELSE violation_pos_raw
        mirrored_x == IF a.display_manager.mirroring.x THEN invert_x(rotated) ELSE rotated
        mirrored == IF a.display_manager.mirroring.y THEN invert_y(mirrored_x) ELSE mirrored_x
        origin == PointSub(a.display_manager.center_offset, a.display_manager.design_offset)
    IN  PointAdd(mirrored, origin)

(* Mutant: the transformed positions are written back to the violations *)
render_drc_violations_in_place(a) ==
    [app |-> [a EXCEPT !.drc_manager.violations =
                 [i \in DOMAIN @ |-> violation_pos(a, @[i])]],
     drawn |-> [i \in DOMAIN a.drc_manager.violations |->
                   violation_pos(a, a.drc_manager.violations[i])]]

(* The markers drawn, and the application left behind *)
render_drc_violations(a) ==
    [app |-> a,
     drawn |-> [i \in DOMAIN a.drc_manager.violations |->
                   violation_pos(a, a.drc_manager.violations[i])]]

render_overlays(a) ==
    LET overlays == render_corner_overlays(a)
        violations == render_drc_violations(overlays.app)
    IN  [app |-> violations.app,
         overlays |-> overlays.drawn,
         violations |-> violations.drawn]

(* The coordinates render_cursor_info reports for the pointer, before they *)
(* are formatted in the unit shown: none in ruler mode or off the viewport *)
render_cursor_info(a, in) ==
    IF a.ruler_active
    THEN None
    ELSE {PointSub(h.gerber, a.display_manager.design_offset) :
             h \in in.hover \cap OverViewport}

(* The application when render_gerber_content calls render_overlays *)
BeforeOverlays(a) ==
    render_layers_ecs(IF a.needs_initial_view THEN reset_view(a) ELSE a)

render_gerber_content(a) == render_overlays(BeforeOverlays(a)).app

(* The state render_gerber_content starts from in a frame with input in *)
BeforeRender(a, in) ==
    handle_viewport_interactions(setup_viewport(render_controls(a, in), in), in)

(* The transform state the cached coordinates depend on *)
ViewTransformState(a) ==
    [rotation_degrees |-> a.rotation_degrees,
     mirroring |-> a.display_manager.mirroring,
     quadrant_view_enabled |-> a.display_manager.quadrant_view_enabled,
     quadrant_offset_magnitude |-> a.display_manager.quadrant_offset_magnitude,
     showing_top |-> a.display_manager.showing_top,
     design_offset |-> a.display_manager.design_offset]

TransformFields == DOMAIN ViewTransformState(AppInit)

(* What the frame did up to the call of render_gerber_content: its input, *)
(* the transform fields it changed, whether it marked the coordinates    *)
(* dirty, and the dirty flag render_gerber_content found.                *)
FrameRecord(a, b, in) ==
    LET drawn == render_overlays(BeforeOverlays(b))
    IN
    [op |-> "frame",
     input |-> in,
     drawn_violations |-> drawn.violations,
     drawn_overlays |-> drawn.overlays,
     cursor |-> {h.gerber : h \in in.hover \cap OverViewport},
     cursor_readout |-> render_cursor_info(drawn.app, in),
     changed |-> LET was == ViewTransformState(a)
                     now_is == ViewTransformState(b)
                 IN  {f \in TransformFields : now_is[f] # was[f]},
     marked |-> BeforeRender([a EXCEPT !.ecs_world.coordinates_dirty = FALSE], in)
                    .ecs_world.coordinates_dirty,
     dirty_at_render |-> b.ecs_world.coordinates_dirty]

---------------------------------------------------------------------------
(* The record of the last operation: name, arguments, result *)

(* old: the value an insertion displaced (an Option); was_dirty: the dirty  *)
(* flag before an operation that clears it; invoked: how many times the     *)
(* operation called the positioning collaborator.                           *)
Op(name) ==
    [op |-> name, layer_type |-> "-", filename |-> "-", index |-> 0,
     arg |-> {}, ret |-> {}, old |-> {}, invoked |-> 0, was_dirty |-> FALSE]

(* An invalidation: a mark_coordinates_dirty call, or the clock passing the *)
(* staleness threshold.  The history counts the positioning recomputes      *)
(* since the last one.                                                      *)
TimeoutExpires ==
    /\ ~(elapsed(lm, now) > STALE_SECS)
    /\ elapsed(lm', now') > STALE_SECS

History ==
    recomputes_since_invalidation' =
        IF last'.op = "mark_coordinates_dirty" \/ TimeoutExpires
        THEN 0
        ELSE Min(recomputes_since_invalidation + last'.invoked, MaxCount)

(* A call on the LayerManager: the history is kept, the view is untouched *)
ManagerStep == History /\ UNCHANGED imported /\ UNCHANGED viewVars

---------------------------------------------------------------------------
(* One action per public method of the LayerManager *)

Init ==
    /\ now = 0
    /\ lm = new(0)
    /\ last = Op("new")
    /\ recomputes_since_invalidation = 0
    /\ imported = {}
    /\ app = AppInit
    /\ frame = [op |-> "none", input |-> NoInput, drawn_violations |-> <<>>, drawn_overlays |-> <<>>,
                cursor |-> None, cursor_readout |-> None,
                changed |-> {}, marked |-> FALSE, dirty_at_render |-> FALSE]

Tick ==
    /\ now < MaxTime
    /\ now' = now + 1
    /\ lm' = lm
    /\ last' = Op("tick")
    /\ ManagerStep

AddLayer ==
    \E layer_type \in LayerTypes, layer_info \in ImportedLayerInfo :
        /\ lm' = add_layer(lm, layer_type, layer_info)
        /\ last' = [Op("add_layer") EXCEPT !.layer_type = layer_type,
                                           !.arg = Some(layer_info),
                                           !.old = get_layer(lm, layer_type)]
        /\ now' = now
        /\ ManagerStep

RemoveLayer ==
    \E layer_type \in LayerTypes :
        /\ lm' = remove_layer(lm, layer_type).self
        /\ last' = [Op("remove_layer") EXCEPT !.layer_type = layer_type,
                                              !.ret = remove_layer(lm, layer_type).ret]
        /\ now' = now
        /\ ManagerStep

GetLayer ==
    \E layer_type \in LayerTypes :
        /\ lm' = lm
        /\ last' = [Op("get_layer") EXCEPT !.layer_type = layer_type,
                                           !.ret = get_layer(lm, layer_type)]
        /\ now' = now
        /\ ManagerStep

SetActiveLayer ==
    \E layer_type \in LayerTypes :
        /\ lm' = set_active_layer(lm, layer_type)
        /\ last' = [Op("set_active_layer") EXCEPT !.layer_type = layer_type]
        /\ now' = now
        /\ ManagerStep

ClearAll ==
    /\ lm' = clear_all(lm)
    /\ last' = Op("clear_all")
    /\ now' = now
    /\ ManagerStep

AddUnassignedGerber ==
    \E gerber \in Filenames :
        /\ Len(lm.unassigned_gerbers) < MaxUnassigned
        /\ lm' = add_unassigned_gerber(lm, gerber)
        /\ last' = [Op("add_unassigned_gerber") EXCEPT !.filename = gerber]
        /\ now' = now
        /\ ManagerStep

RemoveUnassignedGerber ==
    \E index \in 0..MaxUnassigned :
        /\ lm' = remove_unassigned_gerber(lm, index).self
        /\ last' = [Op("remove_unassigned_gerber") EXCEPT
                        !.index = index,
                        !.ret = remove_unassigned_gerber(lm, index).ret]
        /\ now' = now
        /\ ManagerStep

AssignLayer ==
    \E filename \in Filenames, layer_type \in LayerTypes :
        /\ lm' = assign_layer(lm, filename, layer_type)
        /\ last' = [Op("assign_layer") EXCEPT !.filename = filename,
                                              !.layer_type = layer_type,
                                              !.old = get_assignment(lm, filename)]
        /\ now' = now
        /\ ManagerStep

RemoveAssignment ==
    \E filename \in Filenames :
        /\ lm' = remove_assignment(lm, filename).self
        /\ last' = [Op("remove_assignment") EXCEPT
                        !.filename = filename,
                        !.ret = remove_assignment(lm, filename).ret]
        /\ now' = now
        /\ ManagerStep

GetAssignment ==
    \E filename \in Filenames :
        /\ lm' = lm
        /\ last' = [Op("get_assignment") EXCEPT !.filename = filename,
                                                !.ret = get_assignment(lm, filename)]
        /\ now' = now
        /\ ManagerStep

MarkCoordinatesDirty ==
    /\ lm' = mark_coordinates_dirty(lm)
    /\ last' = Op("mark_coordinates_dirty")
    /\ now' = now
    /\ ManagerStep

MarkCoordinatesUpdated ==
    /\ lm' = mark_coordinates_updated(lm, now)
    /\ last' = [Op("mark_coordinates_updated") EXCEPT
                    !.was_dirty = lm.coordinates_dirty]
    /\ now' = now
    /\ ManagerStep

CoordinatesNeedUpdate ==
    /\ lm' = lm
    /\ last' = [Op("coordinates_need_update") EXCEPT
                    !.ret = Some(coordinates_need_update(lm, now))]
    /\ now' = now
    /\ ManagerStep

UpdateCoordinatesFromDisplay ==
    \E r \in update_coordinates_from_display(lm, now) :
        /\ lm' = r.self
        /\ last' = [Op("update_coordinates_from_display") EXCEPT
                        !.invoked = r.invoked]
        /\ now' = now
        /\ ManagerStep

InitializeAllCoordinates ==
    /\ lm' = initialize_all_coordinates(lm, now)
    /\ last' = [Op("initialize_all_coordinates") EXCEPT
                    !.was_dirty = lm.coordinates_dirty]
    /\ now' = now
    /\ ManagerStep

GetVisibleLayers ==
    \E v \in get_visible_layers(lm) :
        /\ lm' = lm
        /\ last' = [Op("get_visible_layers") EXCEPT !.ret = Some(v)]
        /\ now' = now
        /\ ManagerStep

ToggleLayerVisibility ==
    \E layer_type \in LayerTypes :
        /\ lm' = toggle_layer_visibility(lm, layer_type)
        /\ last' = [Op("toggle_layer_visibility") EXCEPT !.layer_type = layer_type]
        /\ now' = now
        /\ ManagerStep

SetLayerVisibility ==
    \E layer_type \in LayerTypes, visible \in BOOLEAN :
        /\ lm' = LayerManager_set_layer_visibility(lm, layer_type, visible)
        /\ last' = [Op("set_layer_visibility") EXCEPT !.layer_type = layer_type,
                                                      !.arg = Some(visible)]
        /\ now' = now
        /\ ManagerStep

GetStatistics ==
    \E stats \in get_statistics(lm) :
        /\ lm' = lm
        /\ last' = [Op("get_statistics") EXCEPT !.ret = Some(stats)]
        /\ now' = now
        /\ ManagerStep

ImportFile ==
    \E filename \in ImportFiles \ imported :
        /\ lm' = import_file(lm, filename)
        /\ imported' = imported \cup {filename}
        /\ last' = [Op("import_file") EXCEPT
                        !.filename = filename,
                        !.ret = detect_layer_type(lm, filename)]
        /\ now' = now
        /\ History
        /\ UNCHANGED viewVars

ManualAssign ==
    \E index \in 0..MaxUnassigned, layer_type \in ImportRoles :
        /\ lm' = manual_assign(lm, index, layer_type).self
        /\ last' = [Op("manual_assign") EXCEPT
                        !.index = index,
                        !.layer_type = layer_type,
                        !.ret = manual_assign(lm, index, layer_type).ret]
        /\ now' = now
        /\ ManagerStep

(* The manager is saved and loaded again, the clock being what it is *)
SaveAndLoad ==
    \E data \in serialize(lm) :
        /\ lm' = IF deserialize(data, now).ok THEN deserialize(data, now).value ELSE lm
        /\ last' = [Op("save_and_load") EXCEPT
                        !.arg = Some(data),
                        !.old = Some(lm),
                        !.ret = Some(deserialize(data, now).ok)]
        /\ now' = now
        /\ ManagerStep

(* A persisted state of another origin is loaded; a failed load leaves *)
(* the manager the application has.                                    *)
Load ==
    \E data \in PartialStates :
        /\ lm' = IF deserialize(data, now).ok THEN deserialize(data, now).value ELSE lm
        /\ last' = [Op("load") EXCEPT
                        !.arg = Some(data),
                        !.ret = Some(deserialize(data, now).ok)]
        /\ now' = now
        /\ ManagerStep

(* Saving and loading, with a manager that has layers, unassigned files, *)
(* assignments and a freshness state to lose.                            *)
NextPersist ==
    \/ SaveAndLoad
    \/ AddLayer /\ layer_count(lm) < MaxSaved
    \/ AddUnassignedGerber /\ unassigned_count(lm) < MaxSaved
    \/ SetActiveLayer
    \/ AssignLayer

SpecPersist == Init /\ [][NextPersist]_vars

(* Loading persisted states of any origin into a manager in use *)
NextLoad ==
    \/ Load
    \/ SaveAndLoad
    \/ SetActiveLayer
    \/ AssignLayer

SpecLoad == Init /\ [][NextLoad]_vars

(* An import, file by file, and the manual assignment of unassigned files *)
NextImport ==
    \/ ImportFile
    \/ ManualAssign

SpecImport == Init /\ [][NextImport]_vars

(* The freshness protocol, with layers to recompute and the clock running *)
NextFresh ==
    \/ Tick
    \/ AddLayer
    \/ MarkCoordinatesDirty
    \/ MarkCoordinatesUpdated
    \/ CoordinatesNeedUpdate
    \/ UpdateCoordinatesFromDisplay
    \/ InitializeAllCoordinates

SpecFresh == Init /\ [][NextFresh]_vars

(* The layer registry alone *)
NextLayers ==
    \/ AddLayer
    \/ RemoveLayer
    \/ GetLayer
    \/ SetActiveLayer
    \/ ClearAll
    \/ MarkCoordinatesDirty

SpecLayers == Init /\ [][NextLayers]_vars

(* The unassigned list and the assignment table alone *)
NextAssignments ==
    \/ AddUnassignedGerber
    \/ RemoveUnassignedGerber
    \/ AssignLayer
    \/ RemoveAssignment
    \/ GetAssignment
    \/ ClearAll

SpecAssignments == Init /\ [][NextAssignments]_vars

(* The registry, the unassigned list and the assignment table together *)
NextRegistry ==
    \/ NextLayers
    \/ NextAssignments

SpecRegistry == Init /\ [][NextRegistry]_vars

(* The registry with the visibility operations and the statistics *)
NextVisibility ==
    \/ AddLayer
    \/ RemoveLayer
    \/ AssignLayer
    \/ MarkCoordinatesDirty
    \/ GetVisibleLayers
    \/ ToggleLayerVisibility
    \/ SetLayerVisibility
    \/ GetStatistics

SpecVisibility == Init /\ [][NextVisibility]_vars

---------------------------------------------------------------------------
(* Properties of the freshness protocol (SpecFresh) *)

(* The transition just taken ran a recompute: the positioning recompute of *)
(* update_coordinates_from_display, or the recompute from raw geometry of  *)
(* initialize_all_coordinates.                                             *)
RecomputeRan ==
    \/ last'.op = "update_coordinates_from_display" /\ last'.invoked = 1
    \/ last'.op = "initialize_all_coordinates"

DirtyCleared == lm.coordinates_dirty /\ ~lm'.coordinates_dirty

(* The condition of coordinates_need_update, written out: dirty, or more *)
(* than 2 seconds since the last update stamp.                           *)
DirtyOrStale(m, t) ==
    m.coordinates_dirty \/ t - m.coordinates_last_updated > 2

(* C1, as stated: in every sequence of public LayerManager operations the  *)
(* dirty flag never goes from true to false without the recompute it       *)
(* guards being performed in that same transition, the update time being   *)
(* stamped in the same step.                                               *)
C1_ClearedOnlyWithRecompute ==
    [][DirtyCleared =>
        /\ RecomputeRan
        /\ lm'.coordinates_last_updated = now']_vars

(* C1, amended: the dirty flag goes from true to false only in a step that *)
(* stamps the update time, and that step is either one that ran a          *)
(* recompute (update_coordinates_from_display, initialize_all_coordinates) *)
(* or a direct call of the public mark_coordinates_updated, which runs     *)
(* none.                                                                   *)
C1_ClearedOnlyWithStamp ==
    [][DirtyCleared =>
        /\ lm'.coordinates_last_updated = now'
        /\ RecomputeRan \/ last'.op = "mark_coordinates_updated"]_vars

C1_Witness ==
    /\ last.op = "mark_coordinates_updated"
    /\ last.was_dirty
    /\ ~lm.coordinates_dirty
    /\ now > 0

(* C2: coordinates_need_update() returns true exactly when the dirty flag  *)
(* is set or more than 2 seconds have elapsed since the last update stamp; *)
(* mark_coordinates_dirty() is idempotent and after it the answer is true  *)
(* at every later time; with the flag clear and at most 2 seconds elapsed  *)
(* it is false.                                                            *)
C2_NeedUpdateExact ==
    /\ last.op = "coordinates_need_update" =>
          last.ret = Some(DirtyOrStale(lm, now))
    /\ last.op = "mark_coordinates_dirty" =>
          /\ lm.coordinates_dirty
          /\ mark_coordinates_dirty(lm) = lm
          /\ \A t \in now..(MaxTime + 1) : coordinates_need_update(lm, t)
    /\ \A t \in now..(MaxTime + 1) :
          (~lm.coordinates_dirty /\ t - lm.coordinates_last_updated <= 2)
              => ~coordinates_need_update(lm, t)

C2_Witness ==
    /\ last.op = "coordinates_need_update"
    /\ ~lm.coordinates_dirty
    /\ now - lm.coordinates_last_updated = 3
    /\ last.ret = Some(TRUE)

(* C3: immediately after update_coordinates_from_display has run the       *)
(* positioning recompute, the dirty flag is false and                      *)
(* coordinates_need_update() is false, whatever the collaborator did to    *)
(* the manager.                                                            *)
C3_FreshAfterUpdate ==
    (last.op = "update_coordinates_from_display" /\ last.invoked = 1) =>
        /\ ~lm.coordinates_dirty
        /\ ~coordinates_need_update(lm, now)
        /\ ~DirtyOrStale(lm, now)

C3_Witness ==
    /\ last.op = "update_coordinates_from_display"
    /\ last.invoked = 1
    /\ \E e \in lm.layers : e[2].coords \in DisplayCoords

(* C4: update_coordinates_from_display is a no-op when                     *)
(* coordinates_need_update() is false (collaborator not invoked, manager   *)
(* unchanged); otherwise it invokes the collaborator exactly once, clears  *)
(* dirty and stamps the time.                                              *)
C4_UpdateGuarded ==
    [][last'.op = "update_coordinates_from_display" =>
        IF DirtyOrStale(lm, now)
        THEN /\ last'.invoked = 1
             /\ ~lm'.coordinates_dirty
             /\ lm'.coordinates_last_updated = now'
        ELSE /\ last'.invoked = 0
             /\ lm' = lm]_vars

C4_Witness ==
    /\ last.op = "update_coordinates_from_display"
    /\ last.invoked = 0
    /\ lm.layers # {}
    /\ now - lm.coordinates_last_updated = 2

(* C5: between two consecutive invalidations the positioning recompute     *)
(* runs at most once, however often update_coordinates_from_display is     *)
(* called; and a call made after the staleness window has passed does      *)
(* recompute.                                                              *)
C5_AtMostOncePerInvalidation ==
    [][/\ recomputes_since_invalidation' <= 1
       /\ (/\ last'.op = "update_coordinates_from_display"
           /\ now - lm.coordinates_last_updated > 2) => last'.invoked = 1]_vars

C5_Witness ==
    /\ last.op = "update_coordinates_from_display"
    /\ last.invoked = 0
    /\ recomputes_since_invalidation = 1

---------------------------------------------------------------------------
(* Properties of the registry (SpecLayers), of the assignment table        *)
(* (SpecAssignments) and of both together (SpecRegistry)                   *)

AtMostOnePerKey(h) == \A e1, e2 \in h : e1[1] = e2[1] => e1 = e2

OtherLayersSame(layer_type) ==
    \A k \in LayerTypes \ {layer_type} : get_layer(lm', k) = get_layer(lm, k)

(* C7: the registry holds at most one LayerInfo per LayerType; add_layer   *)
(* with a role already present replaces the record and leaves              *)
(* layer_count() unchanged, with a new role it increases layer_count() by  *)
(* exactly one; other records are not touched.                             *)
C7_OneRecordPerRole ==
    [][/\ AtMostOnePerKey(lm'.layers)
       /\ last'.op = "add_layer" =>
            /\ layer_count(lm') =
                 IF contains_key(lm.layers, last'.layer_type)
                 THEN layer_count(lm)
                 ELSE layer_count(lm) + 1
            /\ {e \in lm'.layers : e[1] = last'.layer_type} =
                 {<<last'.layer_type, i>> : i \in last'.arg}
            /\ OtherLayersSame(last'.layer_type)]_vars

C7_Witness ==
    /\ last.op = "add_layer"
    /\ last.old # None
    /\ last.old # last.arg
    /\ layer_count(lm) = 2

(* C8: after add_layer(role, r), get_layer(role) returns r; after          *)
(* remove_layer(role), get_layer(role) is absent and remove_layer returned *)
(* the record that was stored; records of other roles are unaffected.      *)
C8_AddGetRemove ==
    [][/\ last'.op = "add_layer" =>
            /\ get_layer(lm', last'.layer_type) = last'.arg
            /\ OtherLayersSame(last'.layer_type)
       /\ last'.op = "remove_layer" =>
            /\ get_layer(lm', last'.layer_type) = None
            /\ last'.ret = get_layer(lm, last'.layer_type)
            /\ OtherLayersSame(last'.layer_type)]_vars

C8_Witness ==
    /\ last.op = "remove_layer"
    /\ last.ret # None
    /\ get_layer(lm, last.layer_type) = None
    /\ lm.layers # {}

(* C9: get_layer, remove_layer, get_assignment and remove_assignment on a  *)
(* missing key, and remove_unassigned_gerber with index >= the list        *)
(* length, return None and leave the whole manager unchanged.              *)
NotFound ==
    \/ /\ last'.op \in {"get_layer", "remove_layer"}
       /\ ~contains_key(lm.layers, last'.layer_type)
    \/ /\ last'.op \in {"get_assignment", "remove_assignment"}
       /\ ~contains_key(lm.layer_assignments, last'.filename)
    \/ /\ last'.op = "remove_unassigned_gerber"
       /\ last'.index >= Len(lm.unassigned_gerbers)

C9_NotFoundIsNone ==
    [][NotFound => (last'.ret = None /\ lm' = lm)]_vars

C9_Witness ==
    /\ last.op = "remove_unassigned_gerber"
    /\ last.index >= Len(lm.unassigned_gerbers)
    /\ last.ret = None
    /\ Len(lm.unassigned_gerbers) > 0
    /\ lm.layers # {}
    /\ lm.layer_assignments # {}

(* C10: a filename has at most one entry in the assignment table;          *)
(* assign_layer(f, role2) when f is assigned to role1 replaces the entry:  *)
(* get_assignment(f) is role2 and the table size is unchanged.             *)
C10_OneAssignmentPerFile ==
    [][/\ AtMostOnePerKey(lm'.layer_assignments)
       /\ last'.op = "assign_layer" =>
            /\ get_assignment(lm', last'.filename) = Some(last'.layer_type)
            /\ contains_key(lm.layer_assignments, last'.filename) =>
                 HashMapLen(lm'.layer_assignments) = HashMapLen(lm.layer_assignments)]_vars

C10_Witness ==
    /\ last.op = "assign_layer"
    /\ last.old # None
    /\ last.old # Some(last.layer_type)
    /\ get_assignment(lm, last.filename) = Some(last.layer_type)

---------------------------------------------------------------------------
(* Tab::render_gerber_view: one frame of the gerber view, on the input of *)
(* the frame.                                                             *)

render_gerber_view(a, in) == render_gerber_content(BeforeRender(a, in))

Frame(in) ==
    LET before_render == BeforeRender(app, in)
    IN  /\ app' = render_gerber_content(before_render)
        /\ frame' = FrameRecord(app, before_render, in)
        /\ UNCHANGED managerVars

(* The pointer of a frame: outside the window, or somewhere in it *)
At(pointer) ==
    [NoInput EXCEPT !.hover = Some(pointer),
                    !.contains_pointer = (pointer \in OverViewport)]

(* Nothing pressed: the pointer moves *)
FrameIdle ==
    \E in \in {NoInput} \cup {At(p) : p \in Pointers} :
        /\ in.clicked = "none"
        /\ Frame(in)

(* A click on one of the controls that change the transform state *)
FrameTransformControl ==
    \E w \in {"quadrant_view", "spacing", "flip", "rotate", "x_mirror",
              "y_mirror", "origin_button"},
       v \in SpacingValues :
        /\ w \in Widgets
        /\ Frame([At(OverControls) EXCEPT
                     !.clicked = w, !.value = IF w = "spacing" THEN v ELSE 0])

(* A click or a double click on the viewport *)
FrameViewportClick ==
    \E p \in OverViewport, d \in BOOLEAN :
        /\ "viewport" \in Widgets
        /\ Frame([At(p) EXCEPT !.clicked = "viewport", !.double_clicked = d])

(* The right button pressed or released, or Escape, with the pointer *)
(* anywhere in the window                                            *)
FrameZoomWindow ==
    \E p \in Pointers, k \in {"pressed", "released", "escape"} :
        Frame([At(p) EXCEPT !.right_pressed = (k = "pressed"),
                            !.right_released = (k = "released"),
                            !.escape = (k = "escape")])

NextView ==
    \/ FrameIdle
    \/ FrameTransformControl
    \/ FrameViewportClick

SpecView == Init /\ [][NextView]_vars

(* The results of a DRC run, in raw geometry space: violations and the *)
(* shapes of the corner overlays.                                      *)
DrcResults ==
    {[violations |-> <<Point(10, 0)>>,
      corner_overlay_shapes |-> << <<Point(10, 0), Point(10, 5), Point(0, 5)>> >>],
     [violations |-> <<Point(3, -4), Point(10, 0)>>,
      corner_overlay_shapes |-> <<>>]}

(* The offsets of the center of a design *)
CenterOffsets == {Point(0, 0), Point(7, 5)}

(* A DRC run stores its results in the DRC manager *)
RunDrc ==
    \E results \in DrcResults :
        /\ app' = [app EXCEPT !.drc_manager = results]
        /\ frame' = [frame EXCEPT !.op = "run_drc"]
        /\ UNCHANGED managerVars

(* A design is loaded: the display manager gets the offset of its center *)
LoadDesign ==
    \E center_offset \in CenterOffsets :
        /\ app' = [app EXCEPT !.display_manager.center_offset = center_offset]
        /\ frame' = [frame EXCEPT !.op = "load_design"]
        /\ UNCHANGED managerVars

(* A click on Rotate, on a mirror button or on the origin button *)
FrameOrientationControl ==
    \E w \in {"rotate", "x_mirror", "y_mirror", "origin_button"} :
        /\ w \in Widgets
        /\ Frame([At(OverControls) EXCEPT !.clicked = w])

(* A click on the viewport *)
FrameClick ==
    \E p \in OverViewport :
        /\ "viewport" \in Widgets
        /\ Frame([At(p) EXCEPT !.clicked = "viewport"])

(* The frames that draw DRC results under every orientation and origin *)
NextDraw ==
    \/ RunDrc
    \/ LoadDesign
    \/ FrameIdle
    \/ FrameOrientationControl
    \/ FrameClick

SpecDraw == Init /\ [][NextDraw]_vars

(* The settings panel is shown and one of the two units is clicked *)
SettingsFrame ==
    \E w \in {"units_mm", "units_mils"} :
        /\ app' = show_settings_panel(app, [NoInput EXCEPT !.clicked = w])
        /\ frame' = [frame EXCEPT !.op = "settings",
                                  !.input = [NoInput EXCEPT !.clicked = w]]
        /\ UNCHANGED managerVars

(* A click on the grid controls: a spacing of the list, or Snap to Grid *)
FrameGridControl ==
    \E w \in {"grid_spacing", "snap"}, v \in DOMAIN grid_spacings_mm :
        /\ w \in Widgets
        /\ w = "snap" => v = 1
        /\ Frame([At(OverControls) EXCEPT !.clicked = w, !.value = v])

(* A click on the origin button *)
FrameOriginButton ==
    /\ "origin_button" \in Widgets
    /\ Frame([At(OverControls) EXCEPT !.clicked = "origin_button"])

(* The frames in which clicks are snapped to the grid *)
NextSnap ==
    \/ FrameGridControl
    \/ FrameOriginButton
    \/ FrameClick
    \/ FrameIdle

SpecSnap == Init /\ [][NextSnap]_vars

(* A click on Quadrant View, or a drag of the quadrant spacing *)
FrameQuadrantControl ==
    \E w \in {"quadrant_view", "spacing"}, v \in SpacingValues :
        /\ w \in Widgets
        /\ Frame([At(OverControls) EXCEPT
                     !.clicked = w, !.value = IF w = "spacing" THEN v ELSE 0])

(* The frames that choose lengths in either unit, with a custom origin *)
NextUnits ==
    \/ SettingsFrame
    \/ FrameGridControl
    \/ FrameQuadrantControl
    \/ FrameOriginButton
    \/ FrameClick

SpecUnits == Init /\ [][NextUnits]_vars

(* A click on the Ruler button *)
FrameRulerButton ==
    /\ "ruler" \in Widgets
    /\ Frame([At(OverControls) EXCEPT !.clicked = "ruler"])

(* The frames of a measurement: the ruler switched on and off, clicks on *)
(* the viewport, the pointer moving between them, the origin button      *)
NextRuler ==
    \/ FrameRulerButton
    \/ FrameClick
    \/ FrameIdle
    \/ FrameOriginButton

SpecRuler == Init /\ [][NextRuler]_vars

(* The wheel turned over the viewport *)
FrameWheel ==
    \E p \in OverViewport, scroll \in {-1, 1} :
        Frame([At(p) EXCEPT !.scroll = scroll])

(* The frames of the zoom window: the right button, Escape, the pointer *)
(* moving, the wheel, clicks and double clicks on the viewport          *)
NextZoom ==
    \/ FrameZoomWindow
    \/ FrameIdle
    \/ FrameWheel
    \/ FrameViewportClick

SpecZoom == Init /\ [][NextZoom]_vars

(* A click on Snap to Grid *)
FrameSnapToggle ==
    /\ "snap" \in Widgets
    /\ Frame([At(OverControls) EXCEPT !.clicked = "snap"])

(* The frames of origin setting: the origin button, clicks on the       *)
(* viewport with and without snapping, the ruler, the right button and  *)
(* Escape                                                                *)
NextOrigin ==
    \/ FrameOriginButton
    \/ FrameClick
    \/ FrameSnapToggle
    \/ FrameRulerButton
    \/ FrameZoomWindow

SpecOrigin == Init /\ [][NextOrigin]_vars

(* A click on Flip *)
FrameFlip ==
    /\ "flip" \in Widgets
    /\ Frame([At(OverControls) EXCEPT !.clicked = "flip"])

(* The layer panel shows or hides one layer *)
LayerPanelSetsVisibility ==
    \E layer_type \in EcsLayerTypes, visible \in BOOLEAN :
        /\ app' = set_layer_visibility(app, layer_type, visible)
        /\ frame' = [frame EXCEPT !.op = "layer_panel", !.input = NoInput]
        /\ UNCHANGED managerVars

(* The frames that flip the board, between changes of single layers *)
NextFlip ==
    \/ FrameFlip
    \/ LayerPanelSetsVisibility

SpecFlip == Init /\ [][NextFlip]_vars

---------------------------------------------------------------------------
(* The gerber view, checked under SpecView *)

(* C6: a frame of the gerber view that changes transform state (the       *)
(* rotation, a mirroring, the quadrant view or its spacing, the side      *)
(* shown, the origin) marks the coordinates dirty in that frame, and the  *)
(* flag is set when render_gerber_content starts to draw.                 *)
C6_TransformChangeMarksDirty ==
    frame.changed # {} => frame.marked /\ frame.dirty_at_render

(* The origin has been set by a click on the viewport, and the frame *)
(* marked the coordinates dirty before it drew.                      *)
C6_Witness ==
    /\ frame.changed = {"design_offset"}
    /\ app.origin_has_been_set
    /\ CustomOriginSet(app)
    /\ frame.marked
    /\ frame.dirty_at_render

---------------------------------------------------------------------------
(* Import and manual assignment, checked under SpecImport *)

Classified(files) == {f \in files : LayerDetector_detect_layer_type(f) # None}
Unclassified(files) == {f \in files : LayerDetector_detect_layer_type(f) = None}

(* No two classified files of the set have the same role *)
DistinctRoles(files) ==
    \A f, g \in Classified(files) :
        f # g => LayerDetector_detect_layer_type(f) # LayerDetector_detect_layer_type(g)

(* The five files of the example: four of distinct roles, one unmatched *)
FiveFiles == {"F_Cu.gbr", "B_Cu.gbr", "F_SilkS.gbr", "Edge_Cuts.gbr", "notes.txt"}

(* C11: the import of a file never drops it.  A file the detector         *)
(* classifies becomes the LayerInfo of that role and the unassigned list  *)
(* is left alone; a file for which detect_layer_type returns None is      *)
(* appended to the unassigned list and the layers are left alone.  While  *)
(* nothing has been assigned by hand and the classified files imported    *)
(* have distinct roles, there is one layer per classified file and one    *)
(* unassigned gerber per unclassified file: five files of which one       *)
(* matches no pattern give 4 layers and exactly 1 unassigned gerber.      *)
C11_ImportNeverDrops ==
    [][last'.op = "import_file" =>
        /\ \A r \in last'.ret :
            /\ get_layer(lm', r) = Some(LayerInfo_new(last'.filename))
            /\ lm'.unassigned_gerbers = lm.unassigned_gerbers
            /\ \A k \in ImportRoles \ {r} : get_layer(lm', k) = get_layer(lm, k)
        /\ last'.ret = None =>
            /\ lm'.unassigned_gerbers = Append(lm.unassigned_gerbers, last'.filename)
            /\ lm'.layers = lm.layers
        /\ (lm'.layer_assignments = {} /\ DistinctRoles(imported')) =>
            /\ layer_count(lm') = Cardinality(Classified(imported'))
            /\ unassigned_count(lm') = Cardinality(Unclassified(imported'))
            /\ Range(lm'.unassigned_gerbers) = Unclassified(imported')
            /\ \A f \in Classified(imported') :
                   \A r \in LayerDetector_detect_layer_type(f) :
                       get_layer(lm', r) = Some(LayerInfo_new(f))
        /\ imported' = FiveFiles /\ lm'.layer_assignments = {} =>
            /\ layer_count(lm') = 4
            /\ unassigned_count(lm') = 1
    ]_vars

(* The five files of the example are imported, the unmatched one last or *)
(* not: 4 layers, and the unmatched file alone in the unassigned list.   *)
C11_Witness ==
    /\ last.op = "import_file"
    /\ imported = FiveFiles
    /\ layer_count(lm) = 4
    /\ lm.unassigned_gerbers = <<"notes.txt">>

---------------------------------------------------------------------------
(* Persistence, checked under SpecPersist and SpecLoad *)

(* C13: a LayerManager serialized and deserialized again has the same     *)
(* active_layer and the same filename -> role assignments, no layer, no   *)
(* unassigned gerber, and the dirty flag set, so that                     *)
(* coordinates_need_update() is true right after the load, whatever the   *)
(* layers, the unassigned list and the dirty flag were before.            *)
C13_SaveLoadRoundTrip ==
    [][last'.op = "save_and_load" =>
        /\ last'.ret = Some(TRUE)
        /\ lm'.active_layer = lm.active_layer
        /\ lm'.layer_assignments = lm.layer_assignments
        /\ lm'.layers = {}
        /\ lm'.unassigned_gerbers = <<>>
        /\ lm'.coordinates_dirty
        /\ coordinates_need_update(lm', now')
    ]_vars

(* A clean manager with a layer, an unassigned file, two assignments and *)
(* the mechanical outline active has been saved and loaded.              *)
C13_Witness ==
    /\ last.op = "save_and_load"
    /\ \E m \in last.old :
        /\ m.layers # {}
        /\ m.unassigned_gerbers # <<>>
        /\ ~m.coordinates_dirty
        /\ Cardinality(m.layer_assignments) = 2
        /\ m.active_layer = "MechanicalOutline"
        /\ lm.active_layer = m.active_layer
        /\ lm.layer_assignments = m.layer_assignments
    /\ lm.layers = {}
    /\ lm.unassigned_gerbers = <<>>
    /\ lm.coordinates_dirty

(* C14: loading a persisted state that lacks active_layer and/or          *)
(* layer_assignments succeeds, the missing field taking its default (the  *)
(* empty assignment table, the active role TopCopper), and the loaded     *)
(* manager is dirty.                                                      *)
C14_MissingFieldsDefault ==
    [][last'.op = "load" =>
        \A data \in last'.arg :
            /\ last'.ret = Some(TRUE)
            /\ lm'.coordinates_dirty
            /\ FieldIndexes(data, "active_layer") = {} =>
                   lm'.active_layer = "TopCopper"
            /\ FieldIndexes(data, "layer_assignments") = {} =>
                   lm'.layer_assignments = {}
    ]_vars

---------------------------------------------------------------------------
(* The transform pipeline, checked under SpecDraw *)

(* The pipeline of the design, stage by stage: a rotation by quarter *)
(* turns, the mirrorings, the translation.                           *)
QuarterTurn(p) == Point(-p.y, p.x)

Rotated(p, degrees) ==
    CASE degrees = 0 -> p
      [] degrees = 90 -> QuarterTurn(p)
      [] degrees = 180 -> QuarterTurn(QuarterTurn(p))
      [] degrees = 270 -> QuarterTurn(QuarterTurn(QuarterTurn(p)))

Mirrored(p, mirroring) ==
    Point(IF mirroring.x THEN -p.x ELSE p.x, IF mirroring.y THEN -p.y ELSE p.y)

Translated(p, display_manager) ==
    Point(p.x + display_manager.center_offset.x - display_manager.design_offset.x,
          p.y + display_manager.center_offset.y - display_manager.design_offset.y)

ToDisplay(p, a) ==
    Translated(Mirrored(Rotated(p, a.rotation_degrees), a.display_manager.mirroring),
               a.display_manager)

(* C15: the markers of the violations and the vertices of the overlays   *)
(* are placed by the same mapping of their raw points: rotated by        *)
(* rotation_degrees, then negated per mirror flag, then moved by         *)
(* center_offset - design_offset.  With rotation 90 and mirror X the     *)
(* point (10, 0) is placed as rotated then mirrored, (0, 10), not as     *)
(* mirrored then rotated, (0, -10).                                      *)
C15_SamePipelineInOrder ==
    frame.op = "frame" =>
        /\ DOMAIN frame.drawn_violations = DOMAIN app.drc_manager.violations
        /\ \A i \in DOMAIN frame.drawn_violations :
            /\ frame.drawn_violations[i] = ToDisplay(app.drc_manager.violations[i], app)
            /\ ( /\ app.rotation_degrees = 90
                 /\ app.display_manager.mirroring = [x |-> TRUE, y |-> FALSE]
                 /\ app.drc_manager.violations[i] = Point(10, 0) ) =>
                   /\ frame.drawn_violations[i] =
                          Translated(Point(0, 10), app.display_manager)
                   /\ frame.drawn_violations[i] #
                          Translated(Point(0, -10), app.display_manager)
        /\ DOMAIN frame.drawn_overlays = DOMAIN app.drc_manager.corner_overlay_shapes
        /\ \A i \in DOMAIN frame.drawn_overlays :
            /\ DOMAIN frame.drawn_overlays[i] =
                   DOMAIN app.drc_manager.corner_overlay_shapes[i]
            /\ \A j \in DOMAIN frame.drawn_overlays[i] :
                   frame.drawn_overlays[i][j] =
                       ToDisplay(app.drc_manager.corner_overlay_shapes[i][j], app)

(* Rotation 90, mirror X, a custom origin and a center offset: the      *)
(* violation at (10, 0) and the overlay vertex at (10, 0) are both      *)
(* drawn at (0, 10) + center_offset - design_offset.                    *)
C15_Witness ==
    /\ frame.op = "frame"
    /\ app.rotation_degrees = 90
    /\ app.display_manager.mirroring = [x |-> TRUE, y |-> FALSE]
    /\ app.display_manager.center_offset = Point(7, 5)
    /\ app.display_manager.design_offset = Point(3000000, 4000000)
    /\ app.drc_manager.violations = <<Point(10, 0)>>
    /\ app.drc_manager.corner_overlay_shapes[1][1] = Point(10, 0)
    /\ frame.drawn_violations[1] = Point(7 - 3000000, 15 - 4000000)
    /\ frame.drawn_overlays[1][1] = Point(7 - 3000000, 15 - 4000000)

(* C16: the coordinates the cursor readout reports are those of the raw  *)
(* point the pipeline (rotate, mirror, translate) places under the       *)
(* cursor, for every rotation, mirroring and origin.                     *)
C16_CursorReadoutUsesPipeline ==
    frame.op = "frame" =>
        \A readout \in frame.cursor_readout, cursor \in frame.cursor :
            ToDisplay(readout, app) = cursor

(* C17: with rotation 0 and both mirror flags false every violation and *)
(* every overlay vertex p is drawn at p + (center_offset -             *)
(* design_offset), neither rotated nor negated.                        *)
C17_PureTranslation ==
    ( /\ frame.op = "frame"
      /\ app.rotation_degrees = 0
      /\ ~app.display_manager.mirroring.x
      /\ ~app.display_manager.mirroring.y ) =>
        /\ \A i \in DOMAIN app.drc_manager.violations :
               frame.drawn_violations[i] =
                   PointAdd(app.drc_manager.violations[i],
                            PointSub(app.display_manager.center_offset,
                                     app.display_manager.design_offset))
        /\ \A i \in DOMAIN app.drc_manager.corner_overlay_shapes :
               \A j \in DOMAIN app.drc_manager.corner_overlay_shapes[i] :
                   frame.drawn_overlays[i][j] =
                       PointAdd(app.drc_manager.corner_overlay_shapes[i][j],
                                PointSub(app.display_manager.center_offset,
                                         app.display_manager.design_offset))

(* No rotation, no mirroring, a custom origin and a center offset, a *)
(* violation and an overlay drawn.                                   *)
C17_Witness ==
    /\ frame.op = "frame"
    /\ app.rotation_degrees = 0
    /\ app.display_manager.mirroring = [x |-> FALSE, y |-> FALSE]
    /\ app.display_manager.center_offset = Point(7, 5)
    /\ app.display_manager.design_offset = Point(3000000, 4000000)
    /\ frame.drawn_violations = <<Point(10 + 7 - 3000000, 5 - 4000000)>>
    /\ frame.drawn_overlays[1][2] = Point(10 + 7 - 3000000, 5 + 5 - 4000000)

(* C18: a frame, whatever it does (Rotate, a mirroring, setting or       *)
(* resetting the origin, drawing), leaves drc_manager.violations and     *)
(* drc_manager.corner_overlay_shapes as they are: the positions drawn    *)
(* are computed on the side.                                             *)
C18_DrcResultsStayRaw ==
    [][frame'.op = "frame" => app'.drc_manager = app.drc_manager]_vars

(* A frame that rotated drew the violations elsewhere than their raw *)
(* points, and those are still stored.                               *)
C18_Witness ==
    /\ frame.op = "frame"
    /\ "rotation_degrees" \in frame.changed
    /\ app.drc_manager.violations = <<Point(3, -4), Point(10, 0)>>
    /\ frame.drawn_violations # app.drc_manager.violations

---------------------------------------------------------------------------
(* Snapping, checked under SpecSnap *)

(* Points to snap: on the grid, off it, halfway between two grid lines, *)
(* on either side of the axes.                                          *)
SnapCoordinates == {-1270000, -38100, -12700, 0, 1, 12700, 38099, 3000000, 4000000}
SnapPoints == {Point(x, y) : x, y \in SnapCoordinates}

IsMultiple(n, spacing) == n % spacing = 0

(* n is a multiple of the spacing nearest to m *)
IsNearestMultiple(n, m, spacing) ==
    /\ IsMultiple(n, spacing)
    /\ 2 * Abs(n - m) <= spacing

(* C19: snapping is idempotent, for every point and every grid setting    *)
(* the controls give: a snapped point snaps to itself.  With snapping     *)
(* enabled each axis is rounded on its own to the nearest multiple of the *)
(* spacing; the point a click gives is that point, and so is the origin   *)
(* a click sets.                                                          *)
C19_SnapIdempotent ==
    /\ \A p \in SnapPoints :
        LET snapped == snap_to_grid(p, app.grid_settings)
            final_coords == FinalCoords(app, p)
        IN  /\ snap_to_grid(snapped, app.grid_settings) = snapped
            /\ FinalCoords(app, final_coords) = final_coords
            /\ app.grid_settings.snap_enabled =>
                /\ IsNearestMultiple(snapped.x, p.x, app.grid_settings.spacing_mm)
                /\ IsNearestMultiple(snapped.y, p.y, app.grid_settings.spacing_mm)
                /\ snapped.x = snap_to_grid(Point(p.x, 0), app.grid_settings).x
                /\ snapped.y = snap_to_grid(Point(0, p.y), app.grid_settings).y
                /\ final_coords = snapped
    /\ ( /\ frame.op = "frame"
         /\ "design_offset" \in frame.changed
         /\ app.origin_has_been_set
         /\ app.grid_settings.snap_enabled ) =>
            \A cursor \in frame.cursor :
                /\ IsNearestMultiple(app.display_manager.design_offset.x, cursor.x,
                                     app.grid_settings.spacing_mm)
                /\ IsNearestMultiple(app.display_manager.design_offset.y, cursor.y,
                                     app.grid_settings.spacing_mm)

(* With snapping enabled on the 0.635 mm grid a click at (3, 4) mm has *)
(* set the origin at the grid point (3.175, 3.81) mm.                  *)
C19_Witness ==
    /\ frame.op = "frame"
    /\ "design_offset" \in frame.changed
    /\ app.grid_settings.snap_enabled
    /\ app.grid_settings.spacing_mm = 635000
    /\ frame.cursor = {Point(3000000, 4000000)}
    /\ app.display_manager.design_offset = Point(3175000, 3810000)
    /\ snap_to_grid(app.display_manager.design_offset, app.grid_settings)
           = app.display_manager.design_offset

---------------------------------------------------------------------------
(* The rotation angle, checked under SpecView *)

(* A press of Rotate, as render_transform_controls handles it *)
RotatePressed(a) == render_transform_controls(a, [NoInput EXCEPT !.clicked = "rotate"])

(* C20: the rotation angle wraps mod 360.  A frame that changes it sets *)
(* it to (rotation_degrees + 90) mod 360; from 0 the angle is always    *)
(* one of 0, 90, 180, 270, never 360; four presses of Rotate restore    *)
(* the angle.                                                           *)
C20_RotationWraps ==
    [][ /\ app'.rotation_degrees \in {0, 90, 180, 270}
        /\ (frame'.op = "frame" /\ "rotation_degrees" \in frame'.changed) =>
               app'.rotation_degrees = (app.rotation_degrees + 90) % 360
        /\ app'.rotation_degrees # app.rotation_degrees =>
               (frame'.op = "frame" /\ "rotation_degrees" \in frame'.changed)
        /\ RotatePressed(RotatePressed(RotatePressed(RotatePressed(app'))))
               .rotation_degrees = app'.rotation_degrees
        /\ RotatePressed(app').rotation_degrees # 360
      ]_vars

(* A press of Rotate at 270 degrees has brought the angle back to 0 *)
C20_Witness ==
    /\ frame.op = "frame"
    /\ frame.changed = {"rotation_degrees"}
    /\ app.rotation_degrees = 0

---------------------------------------------------------------------------
(* Properties of the visibility operations (SpecVisibility) *)

VisibleEntries(m) == {e \in m.layers : e[2].visible}

(* C21: get_visible_layers() returns exactly the (role, record) pairs of  *)
(* the registry whose visible flag is true, each once; in                 *)
(* get_statistics() visible_layers is that number and never exceeds       *)
(* total_layers.                                                          *)
C21_VisibleLayersExact ==
    [][/\ last'.op = "get_visible_layers" =>
            \A v \in last'.ret :
                /\ Range(v) = VisibleEntries(lm)
                /\ Len(v) = Cardinality(VisibleEntries(lm))
       /\ last'.op = "get_statistics" =>
            \A stats \in last'.ret :
                /\ stats.visible_layers = Cardinality(VisibleEntries(lm))
                /\ stats.total_layers = Cardinality(lm.layers)
                /\ stats.visible_layers <= stats.total_layers]_vars

(* The statistics of a registry of two records, one of them hidden *)
C21_Witness ==
    /\ last.op = "get_statistics"
    /\ \E stats \in last.ret : stats.visible_layers = 1 /\ stats.total_layers = 2
    /\ \E e \in lm.layers : ~e[2].visible

LayersExcept(m, layer_type) == {e \in m.layers : e[1] # layer_type}

(* C22: toggle_layer_visibility(role) negates the visible flag of that    *)
(* role's record and set_layer_visibility(role, b) sets it to b; both     *)
(* leave every other record, the set of roles, the assignments and the    *)
(* dirty flag unchanged, and change nothing when the role has no record;  *)
(* toggling twice restores the state and set_layer_visibility is          *)
(* idempotent.                                                            *)
C22_VisibilityOnlyOwnFlag ==
    [][(last'.op \in {"toggle_layer_visibility", "set_layer_visibility"}) =>
        LET role == last'.layer_type
            toggled == last'.op = "toggle_layer_visibility"
        IN
        /\ get_layer(lm', role) =
               {[i EXCEPT !.visible = IF toggled THEN ~i.visible
                                      ELSE CHOOSE b \in last'.arg : TRUE] :
                    i \in get_layer(lm, role)}
        /\ LayersExcept(lm', role) = LayersExcept(lm, role)
        /\ Keys(lm'.layers) = Keys(lm.layers)
        /\ lm'.layer_assignments = lm.layer_assignments
        /\ lm'.coordinates_dirty = lm.coordinates_dirty
        /\ [lm' EXCEPT !.layers = {}] = [lm EXCEPT !.layers = {}]
        /\ get_layer(lm, role) = None => lm' = lm
        /\ toggled => toggle_layer_visibility(lm', role) = lm
        /\ ~toggled =>
               \A b \in last'.arg :
                   LayerManager_set_layer_visibility(lm', role, b) = lm'
      ]_vars

(* A record was hidden by a toggle while another record, an assignment *)
(* and the dirty flag were there to be disturbed                       *)
C22_Witness ==
    /\ last.op = "toggle_layer_visibility"
    /\ \E i \in get_layer(lm, last.layer_type) : ~i.visible
    /\ layer_count(lm) = 2
    /\ lm.layer_assignments # {}
    /\ lm.coordinates_dirty

---------------------------------------------------------------------------
(* initialize_all_coordinates, checked under SpecFresh *)

(* C23: initialize_all_coordinates() recomputes the coordinates of every  *)
(* record of the registry from its raw geometry, then clears the dirty    *)
(* flag and stamps the update time, whether or not the flag was set       *)
(* before; afterwards coordinates_need_update() is false.                 *)
C23_InitializeUnconditional ==
    [][last'.op = "initialize_all_coordinates" =>
        /\ lm'.layers = {<<e[1], [e[2] EXCEPT !.coords = GerberCoords]>> : e \in lm.layers}
        /\ ~lm'.coordinates_dirty
        /\ lm'.coordinates_last_updated = now'
        /\ ~coordinates_need_update(lm', now')
        /\ [lm' EXCEPT !.layers = {}, !.coordinates_dirty = FALSE,
                       !.coordinates_last_updated = 0]
             = [lm EXCEPT !.layers = {}, !.coordinates_dirty = FALSE,
                          !.coordinates_last_updated = 0]
      ]_vars

(* The call came with the flag clear and the coordinates stale by time *)
C23_Witness ==
    /\ last.op = "initialize_all_coordinates"
    /\ ~last.was_dirty
    /\ layer_count(lm) = 2
    /\ now > STALE_SECS
    /\ lm.coordinates_last_updated = now
    /\ \A e \in lm.layers : e[2].coords = GerberCoords

---------------------------------------------------------------------------
(* Display units, checked under SpecUnits *)

(* The state but for the two unit flags *)
WithoutUnitFlags(a) ==
    [a EXCEPT !.global_units_mils = FALSE, !.ecs_world.units_mils = FALSE]

(* A length given in the unit shown, in the stored unit (mm, held as nm) *)
ToStored(value, is_mils) == value * (IF is_mils THEN NM_PER_MIL ELSE NM_PER_MM)

(* C24: display units are never stored.  Switching the global unit       *)
(* changes only global_units_mils and the synced ECS unit: grid spacing,  *)
(* quadrant offset magnitude, custom origin and all geometry are          *)
(* unchanged.  A grid spacing or a quadrant spacing chosen while in mils  *)
(* is converted to mm before it is stored.                                *)
C24_UnitsNeverStored ==
    [][/\ frame'.op = "settings" =>
            /\ app'.global_units_mils = (frame'.input.clicked = "units_mils")
            /\ app'.ecs_world.units_mils = app'.global_units_mils
            /\ WithoutUnitFlags(app') = WithoutUnitFlags(app)
       /\ (frame'.op = "frame" /\ frame'.input.clicked = "grid_spacing") =>
            /\ app'.grid_settings.spacing_mm \in Range(grid_spacings_mm)
            /\ app.ecs_world.units_mils =>
                   app'.grid_settings.spacing_mm =
                       ToStored(grid_spacings_mils[frame'.input.value], TRUE)
       /\ (frame'.op = "frame" /\ frame'.input.clicked = "spacing"
               /\ app.display_manager.quadrant_view_enabled) =>
            app'.display_manager.quadrant_offset_magnitude =
                ToStored(frame'.input.value, app.ecs_world.units_mils)
       /\ frame'.op = "frame" =>
            /\ app'.global_units_mils = app.global_units_mils
            /\ app'.ecs_world.units_mils = app.ecs_world.units_mils
      ]_vars

(* The unit was switched back to millimeters with a grid spacing and a   *)
(* quadrant spacing of 10 mils chosen in mils, and a custom origin set   *)
C24_Witness ==
    /\ frame.op = "settings"
    /\ ~app.global_units_mils
    /\ ~app.ecs_world.units_mils
    /\ app.display_manager.quadrant_offset_magnitude = 254000
    /\ app.grid_settings.spacing_mm = 254000
    /\ app.display_manager.design_offset # Point(0, 0)

---------------------------------------------------------------------------
(* The ruler, checked under SpecRuler *)

(* The frame was a click on the viewport that the ruler handled *)
RulerClick ==
    /\ frame'.op = "frame"
    /\ frame'.input.clicked = "viewport"
    /\ frame'.input.hover # None
    /\ app.ruler_active
    /\ ~app.setting_origin_mode
    /\ ~app.zoom_window_dragging

(* The point of the click, as the ruler stores it *)
ClickedPoint == {FinalCoords(app, h.gerber) : h \in frame'.input.hover}

(* C25: with the ruler active and origin-setting mode off, clicks follow *)
(* the three-step cycle: the first click sets ruler_start and turns      *)
(* ruler_dragging on (ruler_end holds nothing but the live preview); the *)
(* second click sets ruler_end to the clicked point, keeps ruler_start   *)
(* and turns ruler_dragging off; a third click starts a new measurement. *)
(* The live preview runs in the frames between the clicks.               *)
C25_RulerThreeStepCycle ==
    [][RulerClick =>
        IF app.ruler_start = None
        THEN /\ app'.ruler_start = ClickedPoint
             /\ app'.ruler_end \in {None, ClickedPoint}
             /\ app'.ruler_dragging
        ELSE IF app.ruler_dragging
        THEN /\ app'.ruler_end = ClickedPoint
             /\ app'.ruler_start = app.ruler_start
             /\ ~app'.ruler_dragging
        ELSE /\ app'.ruler_start = ClickedPoint
             /\ app'.ruler_end \in {None, ClickedPoint}
             /\ app'.ruler_dragging
      ]_vars

(* What the code does: once a measurement is started no click ends it *)
C25_ClickAlwaysRestarts ==
    [][RulerClick =>
        /\ app'.ruler_start = ClickedPoint
        /\ app'.ruler_end = ClickedPoint
        /\ app'.ruler_dragging
      ]_vars

---------------------------------------------------------------------------
(* The zoom window, checked under SpecZoom *)

(* The rectangle from the start of the drag to the pointer is larger than *)
(* 10 px in both width and height                                         *)
LargeRectangle ==
    \E s \in app.zoom_window_start, h \in frame'.input.hover :
        Abs(h.screen.x - s.x) > 10 /\ Abs(h.screen.y - s.y) > 10

(* C26: after every frame zoom_window_dragging is true exactly when      *)
(* zoom_window_start is set.  A right-button press over the viewport     *)
(* with a known pointer position sets both, a right-button release or    *)
(* Escape clears both, and a release whose rectangle is not larger than  *)
(* 10 px in both width and height ends the drag and leaves the scale and *)
(* the translation of the view unchanged.                                *)
C26_ZoomWindowDragIffStart ==
    [][frame'.op = "frame" =>
        LET in == frame'.input
        IN
        /\ app'.zoom_window_dragging <=> app'.zoom_window_start # None
        /\ (in.right_pressed /\ in.contains_pointer /\ in.hover # None) =>
               /\ app'.zoom_window_dragging
               /\ app'.zoom_window_start = {h.screen : h \in in.hover}
        /\ (in.right_released \/ in.escape) =>
               /\ ~app'.zoom_window_dragging
               /\ app'.zoom_window_start = None
        /\ (in.right_released /\ app.zoom_window_dragging /\ ~LargeRectangle) =>
               app'.view_state = app.view_state
        /\ (in.escape /\ app.zoom_window_dragging) =>
               app'.view_state = app.view_state
      ]_vars

(* A drag started on a view that an earlier zoom window had changed *)
C26_Witness ==
    /\ frame.op = "frame"
    /\ frame.input.right_pressed
    /\ app.zoom_window_dragging
    /\ app.zoom_window_start = {Point(30, 30)}
    /\ app.view_state = [scale |-> 1, translation |-> Point(15, 15)]

---------------------------------------------------------------------------
(* Origin setting, checked under SpecOrigin *)

(* The frame was a press of Set Origin: the origin button, offered as *)
(* Set Origin because no custom origin is set                         *)
SetOriginPressed ==
    /\ frame'.op = "frame"
    /\ frame'.input.clicked = "origin_button"
    /\ ~CustomOriginSet(app)

(* The frame was a click on the viewport in origin-setting mode, with a *)
(* known cursor position                                                *)
OriginClick ==
    /\ frame'.op = "frame"
    /\ frame'.input.clicked = "viewport"
    /\ frame'.input.hover # None
    /\ app.setting_origin_mode

(* The gerber coordinates of the cursor, snapped iff snap_enabled *)
OriginOfClick ==
    {IF app.grid_settings.snap_enabled
     THEN Point(RoundDiv(h.gerber.x, app.grid_settings.spacing_mm)
                    * app.grid_settings.spacing_mm,
                RoundDiv(h.gerber.y, app.grid_settings.spacing_mm)
                    * app.grid_settings.spacing_mm)
     ELSE h.gerber : h \in frame'.input.hover}

(* The click set the origin *)
OriginSetByClick ==
    /\ {app'.display_manager.design_offset} = OriginOfClick
    /\ ~app'.setting_origin_mode
    /\ app'.origin_has_been_set
    /\ BeforeRender(app, frame'.input).needs_initial_view
    /\ frame'.marked
    /\ app'.ruler_start = app.ruler_start
    /\ app'.ruler_end = app.ruler_end

(* The press of Set Origin turned the mode on and left the origin *)
SetOriginArmed ==
    /\ app'.setting_origin_mode
    /\ app'.display_manager.design_offset = app.display_manager.design_offset
    /\ app'.origin_has_been_set = app.origin_has_been_set

(* C27: origin setting is a two-step protocol.  Pressing Set Origin      *)
(* (offered only when no custom origin is set) turns setting_origin_mode *)
(* on without changing design_offset; the next viewport click with a     *)
(* known cursor position sets design_offset to the cursor's gerber       *)
(* coordinates (snapped to the grid iff snap_enabled), turns             *)
(* setting_origin_mode off, sets origin_has_been_set and                 *)
(* needs_initial_view and marks coordinates dirty; that click does not   *)
(* change ruler_start or ruler_end even when the ruler is active.        *)
C27_OriginTwoStep ==
    [][/\ SetOriginPressed => SetOriginArmed
       /\ OriginClick => OriginSetByClick
      ]_vars

(* C27, amended: the same, for a viewport click while no zoom-window     *)
(* drag is in progress; a click during a zoom-window drag is ignored and *)
(* leaves setting_origin_mode on and design_offset as it was.            *)
C27_OriginTwoStepOutsideDrag ==
    [][/\ SetOriginPressed => SetOriginArmed
       /\ (OriginClick /\ ~app.zoom_window_dragging) => OriginSetByClick
       /\ (OriginClick /\ app.zoom_window_dragging) =>
            /\ app'.setting_origin_mode
            /\ app'.display_manager.design_offset = app.display_manager.design_offset
            /\ app'.origin_has_been_set = app.origin_has_been_set
      ]_vars

(* A click set the origin, snapped to the grid, with a measurement of *)
(* the ruler left as it was                                           *)
C27_Witness ==
    /\ frame.op = "frame"
    /\ frame.input.clicked = "viewport"
    /\ frame.cursor = {Point(3000000, 4000000)}
    /\ app.grid_settings.snap_enabled
    /\ app.display_manager.design_offset = Point(2540000, 5080000)
    /\ app.origin_has_been_set
    /\ ~app.setting_origin_mode
    /\ app.ruler_active
    /\ app.ruler_start = {Point(0, 0)}
    /\ frame.marked

(* C28: after any sequence of Set Origin, viewport clicks and Reset      *)
(* Origin, origin_has_been_set is true exactly when a custom origin is   *)
(* in effect, that is when design_offset differs from (0, 0); whenever   *)
(* origin_has_been_set is true the button offered is Reset Origin.       *)
C28_OriginFlagIffCustomOrigin ==
    /\ app.origin_has_been_set <=> app.display_manager.design_offset # Point(0, 0)
    /\ app.origin_has_been_set => CustomOriginSet(app)

(* What the code keeps: a custom origin in effect has the flag set *)
C28_CustomOriginHasFlag ==
    CustomOriginSet(app) => app.origin_has_been_set

---------------------------------------------------------------------------
(* Flip, checked under SpecFlip *)

TopSideLayers ==
    {<<"Copper", "1">>, <<"Silkscreen", "Top">>, <<"Soldermask", "Top">>,
     <<"Paste", "Top">>}

BottomSideLayers ==
    {t \in EcsLayerTypes : t[1] = "Copper" /\ t[2] # "1"}
        \cup {<<"Silkscreen", "Bottom">>, <<"Soldermask", "Bottom">>,
              <<"Paste", "Bottom">>}

(* C29: pressing Flip negates showing_top and then sets layer visibility *)
(* from the new value: Copper(1) and the Top silkscreen, soldermask and  *)
(* paste layers are visible iff showing_top, every other copper layer    *)
(* and the Bottom silkscreen, soldermask and paste layers are visible    *)
(* iff not showing_top, the MechanicalOutline visibility is left as it   *)
(* was, and coordinates are marked dirty.                                *)
C29_FlipSetsVisibility ==
    [][(frame'.op = "frame" /\ frame'.input.clicked = "flip") =>
        /\ app'.display_manager.showing_top = ~app.display_manager.showing_top
        /\ \A t \in TopSideLayers :
               app'.ecs_world.visibility[t] = app'.display_manager.showing_top
        /\ \A t \in BottomSideLayers :
               app'.ecs_world.visibility[t] = ~app'.display_manager.showing_top
        /\ app'.ecs_world.visibility[<<"MechanicalOutline", "-">>]
               = app.ecs_world.visibility[<<"MechanicalOutline", "-">>]
        /\ TopSideLayers \cup BottomSideLayers \cup {<<"MechanicalOutline", "-">>}
               = DOMAIN app'.ecs_world.visibility
        /\ frame'.marked
      ]_vars

(* The board was flipped to the bottom with the outline hidden *)
C29_Witness ==
    /\ frame.op = "frame"
    /\ frame.input.clicked = "flip"
    /\ ~app.display_manager.showing_top
    /\ ~app.ecs_world.visibility[<<"MechanicalOutline", "-">>]
    /\ app.ecs_world.visibility[<<"Copper", "2">>]
    /\ ~app.ecs_world.visibility[<<"Copper", "1">>]
    /\ frame.marked

---------------------------------------------------------------------------
(* The transform buttons and the double click, checked under SpecView *)

(* The state a transform button may not touch: all of it but the dirty *)
(* mark, the view (reset when the frame found needs_initial_view set)  *)
(* and the cursor position the frame reads                             *)
BesidesMarkAndView(a) ==
    [a EXCEPT !.ecs_world.coordinates_dirty = FALSE,
              !.needs_initial_view = FALSE,
              !.view_state = AppInit.view_state,
              !.ui_state = AppInit.ui_state]

(* The state with the transform field of the button changed *)
WithOwnField(a, button) ==
    CASE button = "rotate" ->
             [a EXCEPT !.rotation_degrees =
                 IF @ = 270 THEN 0 ELSE @ + 90]
      [] button = "x_mirror" -> [a EXCEPT !.display_manager.mirroring.x = ~@]
      [] button = "y_mirror" -> [a EXCEPT !.display_manager.mirroring.y = ~@]

(* The frame was a press of Rotate, X Mirror or Y Mirror, and it left *)
(* the custom origin and the view alone                               *)
TransformButtonsKeepOriginAndView ==
    (frame'.op = "frame" /\ frame'.input.clicked \in {"rotate", "x_mirror", "y_mirror"}) =>
        /\ app'.display_manager.design_offset = app.display_manager.design_offset
        /\ app'.origin_has_been_set = app.origin_has_been_set
        /\ BeforeRender(app, frame'.input).needs_initial_view = app.needs_initial_view
        /\ ~app.needs_initial_view => app'.view_state = app.view_state
        /\ BesidesMarkAndView(app') =
               BesidesMarkAndView(WithOwnField(app, frame'.input.clicked))
        /\ frame'.marked

DoubleClick == frame'.op = "frame" /\ frame'.input.double_clicked

(* The double click asked for the initial view and kept the orientation *)
DoubleClickCentersView ==
    /\ BeforeRender(app, frame'.input).needs_initial_view
    /\ app'.rotation_degrees = app.rotation_degrees
    /\ app'.display_manager.mirroring = app.display_manager.mirroring

===========================================================================
